---------------------------- MODULE Spec2Model ----------------------------
(***************************************************************************)
(* A model of the deep-research pipeline of ProjectOhara:                  *)
(*   - ContextState (backend/services/context_state.py): the per-session   *)
(*     accumulator with the global citation registry;                      *)
(*   - ResearchPipeline (backend/services/research.py): the stage handlers *)
(*     and the stage-5 generator deep_research;                            *)
(*   - research_deep.generate (backend/routes/research.py): the NDJSON     *)
(*     stream handed to the consumer.                                      *)
(*                                                                         *)
(* Texts (dossier text, key learnings) are sequences of one-character      *)
(* strings, so that the citation rewrite is modelled on characters, as     *)
(* re.sub works.  Python dicts are functions; a dict that is only iterated *)
(* in insertion order is kept as the sequence of its keys.                 *)
(*                                                                         *)
(* Three specifications share the variables:                               *)
(*   SpecRegistry  add_sources / add_dossier called on one ContextState;   *)
(*   SpecStages    the stage handlers 1-4 called on one pipeline;          *)
(*   SpecDeep      one stage-5 request: generate() driving deep_research.  *)
(***************************************************************************)
EXTENDS Integers, Sequences, FiniteSets, TLC

(***************************************************************************)
(* Bounds of the model.                                                    *)
(***************************************************************************)
\* most dossiers added in SpecRegistry
MaxDossiers == 1
\* citation numbers handed out before SpecRegistry stops registering
MaxCounter == 7
\* stage handlers called on one pipeline in SpecStages
MaxCalls == 2

\* the URLs of the model
URLs == {"A", "B", "C"}

\* Python's None / a falsy citation number
NoNum == 0

(***************************************************************************)
(* Texts                                                                   *)
(***************************************************************************)
DigitChars == <<"0", "1", "2", "3", "4", "5", "6", "7", "8", "9">>

IsDigit(c) == \E d \in 1..10 : DigitChars[d] = c

DigitValue(c) == (CHOOSE d \in 1..10 : DigitChars[d] = c) - 1

\* str(n) for n >= 0
RECURSIVE Digits(_)
Digits(n) ==
    IF n < 10 THEN <<DigitChars[n + 1]>>
    ELSE Digits(n \div 10) \o <<DigitChars[(n % 10) + 1]>>

\* f'[{n}]'
Cite(n) == <<"[">> \o Digits(n) \o <<"]">>

\* text[p:].startswith(pat)
StartsWith(text, p, pat) ==
    /\ p + Len(pat) - 1 <= Len(text)
    /\ SubSeq(text, p, p + Len(pat) - 1) = pat

\* a pattern without the closing bracket: '\[{local_num}'
MatchesAtPrefix(text, p, local_num) ==
    StartsWith(text, p, <<"[">> \o Digits(local_num))

\* the pattern rf'\[{local_num}\](?!\d)' matches at position p
MatchesAt(text, p, local_num) ==
    /\ StartsWith(text, p, Cite(local_num))
    /\ LET q == p + Len(Cite(local_num))
       IN  ~(q <= Len(text) /\ IsDigit(text[q]))

\* re.sub(rf'\[{local_num}\](?!\d)', f'[{global_num}]', text), from position p:
\* leftmost non-overlapping matches, the replacement is not scanned again
RECURSIVE ReSubFrom(_, _, _, _)
ReSubFrom(local_num, global_num, text, p) ==
    IF p > Len(text) THEN <<>>
    ELSE IF MatchesAt(text, p, local_num)
         THEN Cite(global_num)
                \o ReSubFrom(local_num, global_num, text, p + Len(Cite(local_num)))
         ELSE <<text[p]>> \o ReSubFrom(local_num, global_num, text, p + 1)

ReSub(local_num, global_num, text) == ReSubFrom(local_num, global_num, text, 1)

IsSpace(c) == c \in {" ", "\n", "\t"}

\* str.strip()
RECURSIVE Strip(_)
Strip(text) ==
    IF text = <<>> THEN <<>>
    ELSE IF IsSpace(Head(text)) THEN Strip(Tail(text))
    ELSE IF IsSpace(text[Len(text)]) THEN Strip(SubSeq(text, 1, Len(text) - 1))
    ELSE text

(***************************************************************************)
(* ContextState                                                            *)
(***************************************************************************)
EmptyDict == <<>>

\* ContextState(language=..., academic_mode=...): the dataclass defaults
NewContextState(language, academic_mode) ==
    [ session_id              |-> "sid",
      session_title           |-> "",
      original_query          |-> "",
      current_step            |-> 0,
      queries                 |-> <<>>,
      urls                    |-> <<>>,
      search_results          |-> EmptyDict,
      clarification_questions |-> <<>>,
      clarification_answers   |-> <<>>,
      plan_points             |-> <<>>,
      plan_version            |-> 0,
      dossiers                |-> <<>>,
      key_learnings           |-> <<>>,
      source_registry         |-> EmptyDict,
      source_counter          |-> 1,
      language                |-> language,
      academic_mode           |-> academic_mode ]

\* a lookup that finds no URL
KeyOfUrlNone(d, url) == NoNum

\* next((num for num, u in d.items() if u == url), None): the first key of d
\* holding url.  The registry is filled in ascending key order, so its
\* insertion order is its key order.
KeyOfUrl(d, url) ==
    IF \E k \in DOMAIN d : d[k] = url
    THEN CHOOSE k \in DOMAIN d :
            /\ d[k] = url
            /\ \A k2 \in DOMAIN d : d[k2] = url => k <= k2
    ELSE NoNum

\* d[k] = v on a dict
DictPut(d, k, v) == [x \in (DOMAIN d) \cup {k} |-> IF x = k THEN v ELSE d[x]]

\* One iteration of the loop of add_sources over the state
\* st = [registry, counter, new_sources].
AddSourceUrlDup(st, url) ==
    [ registry    |-> DictPut(st.registry, st.counter, url),
      counter     |-> st.counter + 1,
      new_sources |-> DictPut(st.new_sources, st.counter, url) ]

\* the same iteration returning only the URLs it adds
AddSourceUrlNewOnly(st, url) ==
    IF KeyOfUrl(st.registry, url) # NoNum THEN st
    ELSE [ registry    |-> DictPut(st.registry, st.counter, url),
           counter     |-> st.counter + 1,
           new_sources |-> DictPut(st.new_sources, st.counter, url) ]

AddSourceUrl(st, url) ==
    LET existing == KeyOfUrl(st.registry, url)
    IN  IF existing # NoNum
        THEN [st EXCEPT !.new_sources = DictPut(st.new_sources, existing, url)]
        ELSE [ registry    |-> DictPut(st.registry, st.counter, url),
               counter     |-> st.counter + 1,
               new_sources |-> DictPut(st.new_sources, st.counter, url) ]

RECURSIVE AddSourcesLoop(_, _, _)
AddSourcesLoop(st, urls, i) ==
    IF i > Len(urls) THEN st
    ELSE AddSourcesLoop(AddSourceUrl(st, urls[i]), urls, i + 1)

\* add_sources numbering from 1 in every call
add_sources_restart(c, urls) ==
    LET st == AddSourcesLoop([ registry    |-> c.source_registry,
                               counter     |-> 1,
                               new_sources |-> EmptyDict ], urls, 1)
    IN  [ context |-> [c EXCEPT !.source_registry = st.registry,
                                !.source_counter  = st.counter],
          ret     |-> st.new_sources ]

\* ContextState.add_sources: [context |-> the state after, ret |-> new_sources]
add_sources(c, urls) ==
    LET st == AddSourcesLoop([ registry    |-> c.source_registry,
                               counter     |-> c.source_counter,
                               new_sources |-> EmptyDict ], urls, 1)
    IN  [ context |-> [c EXCEPT !.source_registry = st.registry,
                                !.source_counter  = st.counter],
          ret     |-> st.new_sources ]

\* ContextState.update_key_learnings for a str argument
update_key_learnings(c, learnings) ==
    IF learnings # <<>> /\ Strip(learnings) # <<>>
    THEN [c EXCEPT !.key_learnings = Append(@, Strip(learnings))]
    ELSE c

\* ContextState.add_dossier
add_dossier(c, point, dossier_text, sources, learnings) ==
    LET c1 == [c EXCEPT !.dossiers = Append(@,
                    [ point        |-> point,
                      dossier      |-> dossier_text,
                      sources      |-> sources,
                      point_number |-> Len(c.dossiers) + 1 ])]
        c2 == add_sources(c1, sources).context
    IN  IF learnings # <<>> THEN update_key_learnings(c2, learnings) ELSE c2

(***************************************************************************)
(* State                                                                   *)
(***************************************************************************)
VARIABLES
    context,      \* pipeline.context: the ContextState
    last_call,    \* the last operation called on it: its arguments, the state
                  \* it found and what it returned
    calls,        \* SpecStages: the number of stage handlers called so far
    \* research_deep (SpecDeep): the request, the generators and the stream
    pc,               \* where generate() and deep_research stand
    plan_points,      \* request.plan_points
    session,          \* the ResearchSession row generate() updates
    point_idx,        \* deep_research: the loop's point_idx
    search_queries,   \* deep_research: search_queries of the current point
    urls,             \* deep_research: the URLs picked for the current point
    scraped,          \* deep_research: list(scraped.keys()), the URLs fetched
    dossier_response, \* deep_research: the parsed dossier response
    dossier_text,     \* deep_research: dossier_text after the renumbering
    key_learnings,    \* deep_research: key_learnings after the renumbering
    final_document,   \* deep_research: final_document
    produced,         \* the events deep_research has yielded
    delivered,        \* the NDJSON lines generate() has yielded to the consumer
    \* the route handlers of stages 1-4 (SpecRoutes)
    api_config,       \* core.api_config: the process-wide provider/key slot
    db_rows,          \* the research_sessions table: row i has id i
    requests,         \* the requests received so far, each with its position
    \* core.scraper (SpecScrape)
    scraper           \* the fetch in progress: its URLs, its position in the
                      \* loops, the navigations and backoff sleeps it has made

deepVars == <<pc, plan_points, session, point_idx, search_queries, urls, scraped,
              dossier_response, dossier_text, key_learnings, final_document,
              produced, delivered>>

routeVars == <<api_config, db_rows, requests>>

vars == <<context, last_call, calls, deepVars, routeVars, scraper>>

\* PROVIDER_CONFIG[provider]["base_url"]
PROVIDER_CONFIG(provider) ==
    CASE provider = "openrouter" -> "https://openrouter.ai/api/v1/chat/completions"
      [] provider = "openai"     -> "https://api.openai.com/v1/chat/completions"
      [] provider = "anthropic"  -> "https://api.anthropic.com/v1/messages"

\* the module-level defaults of core.api_config
DefaultApiConfig ==
    [key |-> "", provider |-> "openrouter", base_url |-> PROVIDER_CONFIG("openrouter")]

\* the route variables before any request is received
RoutesIdle ==
    /\ api_config = DefaultApiConfig
    /\ db_rows = <<>>
    /\ requests = <<>>

\* no fetch has been started
NoScrape == [pc |-> "idle"]

\* a parsed dossier response that is not there: call_llm returned None
NoDossier == [ok |-> FALSE, text |-> <<>>, learnings |-> <<>>]

\* the stage-5 variables before a stage-5 request exists
\* the columns of a ResearchSession row that stage 5 writes
StoredRow(phase) ==
    [ phase           |-> phase,
      final_document  |-> "",
      source_registry |-> EmptyDict,
      total_sources   |-> 0 ]

\* the ResearchSession a request has loaded: the object's attributes and,
\* under persisted, the row as the last successful commit left it
NewSession(phase) ==
    [ id              |-> "s1",
      phase           |-> phase,
      final_document  |-> "",
      source_registry |-> EmptyDict,
      total_sources   |-> 0,
      persisted       |-> StoredRow(phase) ]

\* a commit that writes the row even when it raises
commit_always(row, commit_ok) ==
    [row EXCEPT !.persisted = [ phase           |-> row.phase,
                                final_document  |-> row.final_document,
                                source_registry |-> row.source_registry,
                                total_sources   |-> row.total_sources ]]

\* await db.commit(): the attributes reach the row unless the commit raises
commit(row, commit_ok) ==
    IF commit_ok
    THEN [row EXCEPT !.persisted = [ phase           |-> row.phase,
                                    final_document  |-> row.final_document,
                                    source_registry |-> row.source_registry,
                                    total_sources   |-> row.total_sources ]]
    ELSE row

DeepIdle ==
    /\ pc = "idle"
    /\ plan_points = <<>>
    /\ session = NewSession("initial")
    /\ point_idx = 0
    /\ search_queries = <<>>
    /\ urls = <<>>
    /\ scraped = <<>>
    /\ dossier_response = NoDossier
    /\ dossier_text = <<>>
    /\ key_learnings = <<>>
    /\ final_document = ""
    /\ produced = <<>>
    /\ delivered = <<>>
    /\ RoutesIdle
    /\ scraper = NoScrape

NoCall == [op |-> "none"]

(***************************************************************************)
(* SpecRegistry: add_sources and add_dossier called on one ContextState    *)
(***************************************************************************)
RECURSIVE SeqsUpTo(_, _)
SeqsUpTo(S, n) ==
    IF n = 0 THEN {<<>>}
    ELSE LET shorter == SeqsUpTo(S, n - 1)
         IN  shorter \cup {Append(s, x) : s \in shorter, x \in S}

IsDistinct(s) == \A i, j \in 1..Len(s) : s[i] = s[j] => i = j

\* URL lists handed to add_sources: repetitions allowed, as long as there are URLs
UrlLists == SeqsUpTo(URLs, Cardinality(URLs))

\* the keys of a scraped dict: distinct URLs in fetch order
FetchedLists == {s \in SeqsUpTo(URLs, Cardinality(URLs)) : IsDistinct(s)}

InitRegistry ==
    /\ context = NewContextState("en", FALSE)
    /\ last_call = NoCall
    /\ calls = 0
    /\ DeepIdle

RegAddSources ==
    \E us \in UrlLists :
        /\ context.source_counter + Len(us) <= MaxCounter
        /\ LET r == add_sources(context, us)
           IN  /\ context' = r.context
               /\ last_call' = [ op   |-> "add_sources",
                                 urls |-> us,
                                 pre  |-> context.source_registry,
                                 ret  |-> r.ret ]
        /\ UNCHANGED <<calls, deepVars, routeVars, scraper>>

RegAddDossier ==
    \E us \in FetchedLists :
        /\ Len(context.dossiers) < MaxDossiers
        /\ context.source_counter + Len(us) <= MaxCounter
        /\ context' = add_dossier(context, "P", Cite(1), us, <<"x">>)
        /\ last_call' = [ op   |-> "add_dossier",
                          urls |-> us,
                          pre  |-> context.source_registry,
                          ret  |-> EmptyDict ]
        /\ UNCHANGED <<calls, deepVars, routeVars, scraper>>

NextRegistry == RegAddSources \/ RegAddDossier

SpecRegistry == InitRegistry /\ [][NextRegistry]_vars

(***************************************************************************)
(* C1: after any sequence of add_sources and add_dossier calls no URL is   *)
(* the value of two keys of source_registry, and registering a URL that is *)
(* already present reuses its number without adding a key: every key the   *)
(* registry had keeps its URL, the only keys added are those of URLs that  *)
(* were absent, and add_sources returns each given URL under the key the   *)
(* registry holds it under.                                                *)
(***************************************************************************)
UrlsOf(d) == {d[k] : k \in DOMAIN d}

C1_CitationUniqueness ==
    LET reg == context.source_registry
    IN  /\ \A k1, k2 \in DOMAIN reg : reg[k1] = reg[k2] => k1 = k2
        /\ last_call.op \in {"add_sources", "add_dossier"} =>
             LET pre   == last_call.pre
                 given == {last_call.urls[i] : i \in 1..Len(last_call.urls)}
             IN  /\ \A k \in DOMAIN pre : k \in DOMAIN reg /\ reg[k] = pre[k]
                 /\ Cardinality(DOMAIN reg) =
                      Cardinality(DOMAIN pre) + Cardinality(given \ UrlsOf(pre))
                 /\ last_call.op = "add_sources" =>
                      /\ UrlsOf(last_call.ret) = given
                      /\ \A k \in DOMAIN last_call.ret :
                            k \in DOMAIN reg /\ reg[k] = last_call.ret[k]

\* S2: [A, B] then [B, C, A] leaves {1:A, 2:B, 3:C}; the second call returns
\* {2:B, 3:C, 1:A}
C1_Witness ==
    /\ last_call.op = "add_sources"
    /\ last_call.urls = <<"B", "C", "A">>
    /\ last_call.pre = <<"A", "B">>
    /\ context.source_registry = <<"A", "B", "C">>
    /\ last_call.ret = <<"A", "B", "C">>
    /\ context.source_counter = 4

(***************************************************************************)
(* The stage handlers 1-4 of ResearchPipeline.  Each takes the context it  *)
(* finds, its arguments and the outcomes of the external calls it makes,   *)
(* and gives [context, error, llm_failed, io]: the context it leaves,      *)
(* whether it returned {"error": ...}, whether a model call of it failed   *)
(* (call_llm returned None) and the external calls it issued.              *)
(***************************************************************************)
\* a model call that failed: call_llm returns None on a timeout, an HTTP error
\* or an empty completion
LlmNone == [ok |-> FALSE, title |-> "", queries |-> <<>>, urls |-> <<>>, points |-> <<>>]

\* execute_searches: every query becomes a key of the result
execute_searches(queries, results) ==
    [q \in {queries[i] : i \in 1..Len(queries)} |-> results[q]]

\* ResearchPipeline.get_overview
get_overview(c, user_query, response) ==
    LET c1 == [c EXCEPT !.original_query = user_query, !.current_step = 1]
    IN  IF ~response.ok
        THEN [context |-> c1, error |-> TRUE, llm_failed |-> TRUE, io |-> {"llm"}]
        ELSE [context |-> [c1 EXCEPT !.session_title = response.title,
                                     !.queries = response.queries],
              error |-> FALSE, llm_failed |-> FALSE, io |-> {"llm"}]

\* ResearchPipeline.search_and_pick; a failed pick call leaves urls = []
search_and_pick(c, user_query, queries, results, pick_response) ==
    LET c1 == [c EXCEPT !.current_step = 2]
        search_results == execute_searches(queries, results)
        picked == IF pick_response.ok THEN pick_response.urls ELSE <<>>
    IN  IF DOMAIN search_results = {}
        THEN [context |-> c1, error |-> TRUE, llm_failed |-> FALSE, io |-> {}]
        ELSE [context |-> [c1 EXCEPT !.search_results = search_results,
                                     !.urls = picked],
              error |-> FALSE, llm_failed |-> ~pick_response.ok,
              io |-> {"search", "llm"}]

\* a clarify that stores the suggestion as the session's questions
clarify_committing(c, user_query, urls_to_scrape, fetched, response) ==
    [context |-> [c EXCEPT !.current_step = 3,
                           !.clarification_questions = Append(@, "?")],
     error |-> fetched = <<>>, llm_failed |-> ~response.ok,
     io |-> {"fetch", "llm"}]

\* ResearchPipeline.clarify; fetched is list(scraped.keys()), the URLs of
\* urls_to_scrape that scrape_urls_batch returned content for
clarify(c, user_query, urls_to_scrape, fetched, response) ==
    LET c1 == [c EXCEPT !.current_step = 3]
    IN  IF fetched = <<>>
        THEN [context |-> c1, error |-> TRUE, llm_failed |-> FALSE,
              io |-> IF urls_to_scrape = <<>> THEN {} ELSE {"fetch"}]
        ELSE [context |-> c1, error |-> FALSE, llm_failed |-> ~response.ok,
              io |-> {"fetch", "llm"}]

\* a create_plan whose set_plan leaves plan_version as it is
create_plan_same_version(c, user_query, clarification_answers, clarification_questions, response) ==
    LET c1 == [c EXCEPT !.current_step = 4]
        points == IF response.ok THEN response.points ELSE <<>>
    IN  [context |-> [c1 EXCEPT !.plan_points = points],
         error |-> FALSE, llm_failed |-> ~response.ok, io |-> {"llm"}]

\* ResearchPipeline.create_plan; clarification_questions = <<>> stands for None
create_plan(c, user_query, clarification_answers, clarification_questions, response) ==
    LET c1 == [c EXCEPT !.current_step = 4]
        c2 == IF clarification_questions # <<>>
              THEN [c1 EXCEPT !.clarification_questions = clarification_questions]
              ELSE c1
        c3 == IF clarification_answers # <<>>
              THEN [c2 EXCEPT !.clarification_answers = clarification_answers]
              ELSE c2
        points == IF response.ok THEN response.points ELSE <<>>
    IN  [context |-> [c3 EXCEPT !.plan_points = points,
                                !.plan_version = @ + 1],
         error |-> FALSE, llm_failed |-> ~response.ok, io |-> {"llm"}]

(***************************************************************************)
(* SpecStages: the stage handlers called, in any order, on one pipeline    *)
(***************************************************************************)
UserQueries == {"", "q"}
QueryLists == {<<>>, <<"s">>}
ResultLists == {<<>>, <<"r">>}
PickedLists == {<<>>, <<"A">>}
AnswerLists == {<<>>, <<"a">>}
QuestionLists == {<<>>, <<"?">>}

OverviewResponses ==
    {LlmNone} \cup {[LlmNone EXCEPT !.ok = TRUE, !.title = "T", !.queries = qs] :
                        qs \in QueryLists}
PickResponses ==
    {LlmNone} \cup {[LlmNone EXCEPT !.ok = TRUE, !.urls = us] : us \in PickedLists}
PlanResponses ==
    {LlmNone} \cup {[LlmNone EXCEPT !.ok = TRUE, !.points = ps] :
                        ps \in {<<>>, <<"P1">>, <<"P1", "P2">>}}
ClarifyResponses == {LlmNone, [LlmNone EXCEPT !.ok = TRUE]}

\* the order-preserving sub-lists of a list
RECURSIVE SubLists(_)
SubLists(s) ==
    IF s = <<>> THEN {<<>>}
    ELSE LET rest == SubLists(Tail(s))
         IN  rest \cup {<<Head(s)>> \o r : r \in rest}

InitStages ==
    /\ context = NewContextState("en", FALSE)
    /\ last_call = NoCall
    /\ calls = 0
    /\ DeepIdle

Called(op, args_empty, r) ==
    /\ calls < MaxCalls
    /\ calls' = calls + 1
    /\ UNCHANGED <<deepVars, routeVars, scraper>>
    /\ context' = r.context
    /\ last_call' = [ op         |-> op,
                      args_empty |-> args_empty,
                      pre        |-> context,
                      error      |-> r.error,
                      llm_failed |-> r.llm_failed,
                      io         |-> r.io ]

StageOverview ==
    \E user_query \in UserQueries, response \in OverviewResponses :
        Called("get_overview", user_query = "",
               get_overview(context, user_query, response))

StageSearchAndPick ==
    \E user_query \in UserQueries, queries \in QueryLists,
       results \in [{"s"} -> ResultLists], pick_response \in PickResponses :
        Called("search_and_pick", queries = <<>>,
               search_and_pick(context, user_query, queries, results, pick_response))

StageClarify ==
    \E user_query \in UserQueries, urls_to_scrape \in PickedLists,
       response \in ClarifyResponses :
        \E fetched \in SubLists(urls_to_scrape) :
            Called("clarify", urls_to_scrape = <<>>,
                   clarify(context, user_query, urls_to_scrape, fetched, response))

StageCreatePlan ==
    \E user_query \in UserQueries, answers \in AnswerLists,
       questions \in QuestionLists, response \in PlanResponses :
        Called("create_plan", user_query = "",
               create_plan(context, user_query, answers, questions, response))

NextStages == StageOverview \/ StageSearchAndPick \/ StageClarify \/ StageCreatePlan

SpecStages == InitStages /\ [][NextStages]_vars

\* ContextState.to_dict: the integer keys of source_registry become strings
to_dict(c) ==
    [c EXCEPT !.source_registry =
        [s \in {ToString(k) : k \in DOMAIN c.source_registry} |->
            c.source_registry[CHOOSE k \in DOMAIN c.source_registry : ToString(k) = s]]]

StageOps == {"get_overview", "search_and_pick", "clarify", "create_plan"}

(***************************************************************************)
(* C4: a stage handler called on a session whose prerequisites are not     *)
(* populated is rejected with an error, runs no model, search or fetch     *)
(* call and leaves the ContextState unchanged.  The prerequisites of 4.7:  *)
(* queries for search_and_pick, urls for clarify, original_query for       *)
(* create_plan; they count as unmet when neither the session holds them    *)
(* nor the caller supplies them.                                           *)
(***************************************************************************)
PrereqUnmet ==
    /\ last_call.op \in StageOps
    /\ last_call.args_empty
    /\ \/ last_call.op = "search_and_pick" /\ last_call.pre.queries = <<>>
       \/ last_call.op = "clarify" /\ last_call.pre.urls = <<>>
       \/ last_call.op = "create_plan" /\ last_call.pre.original_query = ""

C4_StageGating ==
    PrereqUnmet =>
        /\ last_call.error
        /\ last_call.io = {}
        /\ context = last_call.pre

(***************************************************************************)
(* C5: a stage operation that ends in an error (it returned an error, or   *)
(* its model call failed) leaves the serialized ContextState as it was     *)
(* before the call.                                                        *)
(***************************************************************************)
C5_FailedStageLeavesState ==
    (last_call.op \in StageOps /\ (last_call.error \/ last_call.llm_failed)) =>
        to_dict(context) = to_dict(last_call.pre)

(***************************************************************************)
(* C6: across any sequence of stage calls on one ContextState current_step *)
(* stays within 0..6 and no call leaves it smaller than it found it.       *)
(***************************************************************************)
C6_StepMonotone ==
    /\ context.current_step \in 0..6
    /\ last_call.op \in StageOps =>
          context.current_step >= last_call.pre.current_step

(***************************************************************************)
(* Stage 5: research_deep.generate driving ResearchPipeline.deep_research  *)
(***************************************************************************)
\* plan points of one request
MaxPoints == 2

\* data = None
NoData == [none |-> TRUE]

\* ResearchEvent(type, message, data).  The message is kept as the point
\* number its "[point_idx...]" prefix names (0 when it has none) and its text.
Event(type, point, text, data) ==
    [type |-> type, message |-> [point |-> point, text |-> text], data |-> data]

StartEvent(total_points) ==
    Event("status", 0, "Starting deep research", [total_points |-> total_points])

ProcessingEvent(idx) == Event("status", idx, "Processing", NoData)

SkippedEvent(idx, total_points, text) ==
    Event("point_complete", idx, text,
          [point_number |-> idx, total_points |-> total_points, skipped |-> TRUE])

SearchingEvent(idx) == Event("status", idx, "Searching", NoData)

SelectingEvent(idx) == Event("status", idx, "Selecting sources", NoData)

SourcesEventAsStatus(idx, picked) ==
    Event("status", idx, "sources", [urls |-> Len(picked)])

\* the data carries the picked URLs; the model keeps how many they are
SourcesEvent(idx, picked) ==
    Event("sources", idx, "sources", [urls |-> Len(picked)])

ReadingEvent(idx) == Event("status", idx, "Reading sources", NoData)

CreatingDossierEvent(idx) == Event("status", idx, "Creating dossier", NoData)

PointCompleteEvent(idx, total_points, learnings, sources) ==
    Event("point_complete", idx, "Complete",
          [ point_number  |-> idx,
            total_points  |-> total_points,
            skipped       |-> FALSE,
            key_learnings |-> learnings,
            sources       |-> sources ])

SynthesisStartEvent(dossier_count, total_sources) ==
    Event("synthesis_start", 0, "Starting final synthesis",
          [dossier_count |-> dossier_count, total_sources |-> total_sources])

DoneEvent(document, c) ==
    Event("done", 0, "Research complete",
          [ final_document  |-> document,
            total_points    |-> Len(c.dossiers),
            total_sources   |-> Cardinality(DOMAIN c.source_registry),
            source_registry |-> c.source_registry,
            session_id      |-> c.session_id,
            context         |-> to_dict(c) ])

\* json.dumps({"type": ..., "message": ..., "data": ...}) + "\n"
Line(e) == [type |-> e.type, message |-> e.message, data |-> e.data]

\* the line of the except branch of generate(): it has no data
ErrorLine == [type |-> "error", message |-> [point |-> 0, text |-> "exception"],
              data |-> NoData]

DeliverFirst(lines, line) == <<line>> \o lines

\* generate() yields the line: the consumer receives it after the earlier ones
Deliver(lines, line) == Append(lines, line)

\* The loop over enumerate(dossier_urls, 1) that rewrites the local citation
\* numbers, from local_num on; st = [text, learnings].
RECURSIVE RemapLoop(_, _, _, _)
RemapLoop(st, dossier_urls, new_sources, local_num) ==
    IF local_num > Len(dossier_urls) THEN st
    ELSE LET global_num == KeyOfUrl(new_sources, dossier_urls[local_num])
             next ==
                IF global_num # NoNum /\ global_num # local_num
                THEN [ text      |-> ReSub(local_num, global_num, st.text),
                       learnings |-> IF st.learnings # <<>>
                                     THEN ReSub(local_num, global_num, st.learnings)
                                     ELSE st.learnings ]
                ELSE st
         IN  RemapLoop(next, dossier_urls, new_sources, local_num + 1)

\* the think call and parse_think_response: None, no queries, queries
ThinkResponses ==
    {LlmNone} \cup {[LlmNone EXCEPT !.ok = TRUE, !.queries = qs] : qs \in QueryLists}

\* the pick call and parse_pick_urls_response / parse_urls
DeepPickResponses ==
    {LlmNone} \cup {[LlmNone EXCEPT !.ok = TRUE, !.urls = us] :
                        us \in {s \in FetchedLists : Len(s) < Cardinality(URLs)}}

\* the dossier call and parse_dossier_response: (dossier_text, key_learnings)
DossierResponses ==
    { [ok |-> TRUE, text |-> Cite(1), learnings |-> <<>>],
      [ok |-> TRUE, text |-> Cite(1) \o <<" ">> \o Cite(2), learnings |-> Cite(2)],
      [ok |-> TRUE, text |-> Cite(12), learnings |-> Cite(1)] }

PointNames == <<"P1", "P2", "P3", "P4">>

\* request.plan_points: the first n point names, n = 0..MaxPoints
PlanPointLists == {SubSeq(PointNames, 1, n) : n \in 0..MaxPoints}

\* research_deep: the pipeline is constructed for the request, with a new
\* ContextState; generate() has not run yet
InitDeep ==
    /\ context = NewContextState("en", FALSE)
    /\ last_call = NoCall
    /\ calls = 0
    /\ pc = "generate"
    /\ plan_points \in PlanPointLists
    /\ session = NewSession("planning")
    /\ point_idx = 0
    /\ search_queries = <<>>
    /\ urls = <<>>
    /\ scraped = <<>>
    /\ dossier_response = NoDossier
    /\ dossier_text = <<>>
    /\ key_learnings = <<>>
    /\ final_document = ""
    /\ produced = <<>>
    /\ delivered = <<>>
    /\ RoutesIdle
    /\ scraper = NoScrape

\* deep_research yields e and generate() yields its line
Yield(e) ==
    /\ produced' = Append(produced, e)
    /\ delivered' = Deliver(delivered, Line(e))

\* a loop that gives up at the first point it cannot finish
ContinueAbort ==
    /\ point_idx' = point_idx
    /\ pc' = "aborted"
    /\ search_queries' = <<>>
    /\ urls' = <<>>
    /\ scraped' = <<>>

\* continue, or the end of the loop body: on to the next plan point.  The
\* locals of the search, pick and scrape phases are dead from here on (each
\* is assigned again before it is read) and are cleared.
Continue ==
    /\ point_idx' = point_idx + 1
    /\ pc' = "loop"
    /\ search_queries' = <<>>
    /\ urls' = <<>>
    /\ scraped' = <<>>

\* generate(): session.phase = "researching"; await db.commit()
GenerateBegin ==
    /\ pc = "generate"
    /\ \E commit_ok \in BOOLEAN :
          /\ session' = commit([session EXCEPT !.phase = "researching"], commit_ok)
          /\ IF commit_ok
             THEN pc' = "deep_start" /\ UNCHANGED delivered
             ELSE pc' = "closed" /\ delivered' = Deliver(delivered, ErrorLine)
    /\ UNCHANGED <<context, last_call, calls, routeVars, scraper, plan_points, point_idx,
                   search_queries, urls, scraped, dossier_response, dossier_text,
                   key_learnings, final_document, produced>>

\* deep_research up to its first yield
DeepStart ==
    /\ pc = "deep_start"
    /\ context' = [context EXCEPT !.current_step = 5]
    /\ Yield(StartEvent(Len(plan_points)))
    /\ point_idx' = 1
    /\ pc' = "loop"
    /\ UNCHANGED <<last_call, calls, routeVars, scraper, plan_points, session, search_queries, urls,
                   scraped, dossier_response, dossier_text, key_learnings,
                   final_document>>

\* the loop takes the next plan point; what the previous iteration left in
\* dossier_response, dossier_text and key_learnings is dead and is cleared
LoopNext ==
    /\ pc = "loop"
    /\ point_idx <= Len(plan_points)
    /\ UNCHANGED <<search_queries, urls, scraped>>
    /\ dossier_response' = NoDossier
    /\ dossier_text' = <<>>
    /\ key_learnings' = <<>>
    /\ Yield(ProcessingEvent(point_idx))
    /\ pc' = "think"
    /\ UNCHANGED <<context, last_call, calls, routeVars, scraper, plan_points, session, point_idx,
                   final_document>>

\* a prompt builder that forgets the previous learnings
get_no_learnings(c) == <<>>

\* ContextState.get_all_learnings
get_all_learnings(c) == c.key_learnings

\* build_think_prompt / build_pick_urls_prompt: the prompt of plan point idx
\* is built from previous_learnings
Prompt(builder, idx, previous_learnings) ==
    [op |-> builder, point |-> idx, previous_learnings |-> previous_learnings]

\* THINK PHASE
Think ==
    /\ pc = "think"
    /\ last_call' = Prompt("build_think_prompt", point_idx,
                           get_all_learnings(context))
    /\ \E think_response \in ThinkResponses :
          IF ~think_response.ok
          THEN /\ Yield(SkippedEvent(point_idx, Len(plan_points),
                                     "Skipped - no search strategy"))
               /\ Continue
          ELSE IF think_response.queries = <<>>
          THEN /\ Yield(SkippedEvent(point_idx, Len(plan_points),
                                     "Skipped - no queries"))
               /\ Continue
          ELSE /\ search_queries' = think_response.queries
               /\ Yield(SearchingEvent(point_idx))
               /\ pc' = "search"
               /\ UNCHANGED <<point_idx, urls, scraped>>
    /\ UNCHANGED <<context, calls, routeVars, scraper, plan_points, session,
                   dossier_response, dossier_text, key_learnings, final_document>>

\* SEARCH PHASE
Search ==
    /\ pc = "search"
    /\ \E results \in [{"s"} -> ResultLists] :
          LET search_results == execute_searches(search_queries, results)
          IN  IF DOMAIN search_results = {}
              THEN Continue /\ UNCHANGED <<produced, delivered>>
              ELSE /\ Yield(SelectingEvent(point_idx))
                   /\ pc' = "pick"
                   /\ UNCHANGED <<point_idx, search_queries, urls, scraped>>
    /\ UNCHANGED <<context, last_call, calls, routeVars, scraper, plan_points, session,
                   dossier_response, dossier_text, key_learnings, final_document>>

\* PICK URLS PHASE
Pick ==
    /\ pc = "pick"
    /\ last_call' = Prompt("build_pick_urls_prompt", point_idx,
                           get_all_learnings(context))
    /\ \E pick_response \in DeepPickResponses :
          LET picked == IF pick_response.ok THEN pick_response.urls ELSE <<>>
          IN  IF picked = <<>>
              THEN Continue /\ UNCHANGED <<produced, delivered>>
              ELSE /\ urls' = picked
                   /\ Yield(SourcesEvent(point_idx, picked))
                   /\ pc' = "reading"
                   /\ UNCHANGED <<point_idx, search_queries, scraped>>
    /\ UNCHANGED <<context, calls, routeVars, scraper, plan_points, session,
                   dossier_response, dossier_text, key_learnings, final_document>>

\* SCRAPE PHASE: the status event
Reading ==
    /\ pc = "reading"
    /\ Yield(ReadingEvent(point_idx))
    /\ pc' = "scrape"
    /\ UNCHANGED <<context, last_call, calls, routeVars, scraper, plan_points, session, point_idx,
                   search_queries, urls, scraped, dossier_response, dossier_text,
                   key_learnings, final_document>>

\* SCRAPE PHASE: scrape_urls_batch returns content for some of the URLs
Scrape ==
    /\ pc = "scrape"
    /\ \E fetched \in SubLists(urls) :
          IF fetched = <<>>
          THEN Continue /\ UNCHANGED <<produced, delivered>>
          ELSE /\ scraped' = fetched
               /\ Yield(CreatingDossierEvent(point_idx))
               /\ pc' = "dossier"
               /\ UNCHANGED <<point_idx, search_queries, urls>>
    /\ UNCHANGED <<context, last_call, calls, routeVars, scraper, plan_points, session,
                   dossier_response, dossier_text, key_learnings, final_document>>

\* DOSSIER PHASE: the dossier call, the renumbering and the commit
Dossier ==
    /\ pc = "dossier"
    /\ \E response \in DossierResponses \cup {NoDossier} :
          IF ~response.ok
          THEN /\ Continue
               /\ UNCHANGED <<context, dossier_response, dossier_text,
                              key_learnings, produced, delivered>>
          ELSE LET dossier_urls == scraped
                   registered == add_sources(context, dossier_urls)
                   remapped == RemapLoop([ text      |-> response.text,
                                           learnings |-> response.learnings ],
                                         dossier_urls, registered.ret, 1)
               IN  /\ dossier_response' = response
                   /\ dossier_text' = remapped.text
                   /\ key_learnings' = remapped.learnings
                   /\ context' = add_dossier(registered.context,
                                             plan_points[point_idx], remapped.text,
                                             dossier_urls, remapped.learnings)
                   /\ Yield(PointCompleteEvent(point_idx, Len(plan_points),
                                               remapped.learnings, dossier_urls))
                   /\ Continue
    /\ UNCHANGED <<last_call, calls, routeVars, scraper, plan_points, session, final_document>>

\* FINAL SYNTHESIS, up to the next yield
LoopEnd ==
    /\ pc = "loop"
    /\ point_idx > Len(plan_points)
    /\ IF context.dossiers # <<>>
       THEN /\ Yield(SynthesisStartEvent(Len(context.dossiers),
                                         Cardinality(DOMAIN context.source_registry)))
            /\ pc' = "synthesis"
            /\ UNCHANGED final_document
       ELSE /\ final_document' = "No dossiers completed."
            /\ Yield(DoneEvent("No dossiers completed.", context))
            /\ pc' = "done"
    /\ UNCHANGED <<context, last_call, calls, routeVars, scraper, plan_points, session, point_idx,
                   search_queries, urls, scraped, dossier_response, dossier_text,
                   key_learnings>>

\* "".join(chars)
RECURSIVE Str(_)
Str(chars) == IF chars = <<>> THEN "" ELSE Head(chars) \o Str(Tail(chars))

\* the lines f"[{num}] {url}" of format_sources_for_report for the keys of
\* registry from num on, in ascending order, each after a "\n"
RECURSIVE SourceLines(_, _)
SourceLines(registry, num) ==
    IF \A k \in DOMAIN registry : k < num THEN ""
    ELSE (IF num \in DOMAIN registry
          THEN "\n[" \o ToString(num) \o "] " \o registry[num]
          ELSE "") \o SourceLines(registry, num + 1)

\* ContextState.format_sources_for_report
format_sources_for_report(c) ==
    IF DOMAIN c.source_registry = {} THEN "No sources registered."
    ELSE "## Sources\n" \o SourceLines(c.source_registry, 1)

\* for d in completed_dossiers: f"## {d['point']}\n\n{d['dossier']}\n\n---\n\n"
RECURSIVE DossierSections(_)
DossierSections(completed_dossiers) ==
    IF completed_dossiers = <<>> THEN ""
    ELSE "## " \o Head(completed_dossiers).point \o "\n\n"
             \o Str(Head(completed_dossiers).dossier) \o "\n\n---\n\n"
             \o DossierSections(Tail(completed_dossiers))

\* a fallback without the source list
fallback_without_sources(completed_dossiers, c) ==
    "# Research Results\n\n" \o DossierSections(completed_dossiers)

\* deep_research: final_document when the synthesis call gave nothing
fallback_document(completed_dossiers, c) ==
    "# Research Results\n\n" \o DossierSections(completed_dossiers)
        \o format_sources_for_report(c)

\* the synthesis call, its fallback and the done event
Synthesis ==
    /\ pc = "synthesis"
    /\ \E llm_ok \in BOOLEAN :
          LET document == IF llm_ok THEN "report"
                          ELSE fallback_document(context.dossiers, context)
          IN  /\ final_document' = document
              /\ last_call' = [op |-> "call_llm", ok |-> llm_ok]
              /\ Yield(DoneEvent(document, context))
    /\ pc' = "done"
    /\ UNCHANGED <<context, calls, routeVars, scraper, plan_points, session, point_idx,
                   search_queries, urls, scraped, dossier_response, dossier_text,
                   key_learnings>>

\* generate() after the done line: the session is updated and committed; an
\* exception of the commit reaches the except branch
GenerateDone ==
    /\ pc = "done"
    /\ \E commit_ok \in BOOLEAN :
          LET event == produced[Len(produced)]
          IN  /\ session' = commit(
                     [session EXCEPT !.phase           = "done",
                                     !.final_document  = event.data.final_document,
                                     !.source_registry = event.data.source_registry,
                                     !.total_sources   = event.data.total_sources],
                     commit_ok)
              /\ IF commit_ok
                 THEN UNCHANGED delivered
                 ELSE delivered' = Deliver(delivered, ErrorLine)
    /\ pc' = "closed"
    /\ UNCHANGED <<context, last_call, calls, routeVars, scraper, plan_points, point_idx,
                   search_queries, urls, scraped, dossier_response, dossier_text,
                   key_learnings, final_document, produced>>

NextDeep ==
    \/ GenerateBegin \/ DeepStart \/ LoopNext \/ Think \/ Search \/ Pick
    \/ Reading \/ Scrape \/ Dossier \/ LoopEnd \/ Synthesis \/ GenerateDone

SpecDeep == InitDeep /\ [][NextDeep]_vars

(***************************************************************************)
(* Citation tokens, for the statements about the stored texts              *)
(***************************************************************************)
\* the first position from p on that holds no digit
RECURSIVE DigitRunEnd(_, _)
DigitRunEnd(text, p) ==
    IF p <= Len(text) /\ IsDigit(text[p]) THEN DigitRunEnd(text, p + 1) ELSE p

\* the number written by the digits text[a..b]
RECURSIVE NumValue(_, _, _)
NumValue(text, a, b) ==
    IF b < a THEN 0 ELSE 10 * NumValue(text, a, b - 1) + DigitValue(text[b])

\* a citation token [N] starts at position p
TokenAt(text, p) ==
    /\ text[p] = "["
    /\ LET e == DigitRunEnd(text, p + 1)
       IN  e > p + 1 /\ e <= Len(text) /\ text[e] = "]"

TokenNum(text, p) == NumValue(text, p + 1, DigitRunEnd(text, p + 1) - 1)

\* the numbers N of the citation tokens [N] of a text
CitationsIn(text) == {TokenNum(text, p) : p \in {q \in 1..Len(text) : TokenAt(text, q)}}

\* The text with every citation token [i], 1 <= i <= Len(fetched), replaced
\* by [g_i], g_i the registry number of fetched[i], each token rewritten once.
RECURSIVE RewrittenOnce(_, _, _, _)
RewrittenOnce(text, fetched, registry, p) ==
    IF p > Len(text) THEN <<>>
    ELSE IF TokenAt(text, p) /\ TokenNum(text, p) \in 1..Len(fetched)
         THEN Cite(KeyOfUrl(registry, fetched[TokenNum(text, p)]))
                \o RewrittenOnce(text, fetched, registry, DigitRunEnd(text, p + 1) + 1)
         ELSE <<text[p]>> \o RewrittenOnce(text, fetched, registry, p + 1)

DoneDelivered == \E i \in 1..Len(delivered) : delivered[i].type = "done"

\* the iteration of the current point has just committed its dossier
JustCommitted == pc = "loop" /\ dossier_response.ok

(***************************************************************************)
(* C2: in step (f), for a point with fetched URLs of registry numbers      *)
(* g_1..g_k, every citation token [i] the model wrote in the dossier text  *)
(* and in the key learnings reads [g_i] in the stored text, each token     *)
(* being rewritten at most once.                                           *)
(***************************************************************************)
C2_RenumberedOnce ==
    JustCommitted =>
        LET d == context.dossiers[Len(context.dossiers)]
        IN  /\ d.dossier = RewrittenOnce(dossier_response.text, d.sources,
                                         context.source_registry, 1)
            /\ dossier_text = d.dossier
            /\ key_learnings = RewrittenOnce(dossier_response.learnings, d.sources,
                                             context.source_registry, 1)

(***************************************************************************)
(* C3: once done is emitted, every citation token [N] of every stored      *)
(* dossier text has N among the keys of source_registry.                   *)
(***************************************************************************)
C3_DossierProvenance ==
    DoneDelivered =>
        \A i \in 1..Len(context.dossiers) :
            CitationsIn(context.dossiers[i].dossier) \subseteq DOMAIN context.source_registry

(***************************************************************************)
(* C7: the delivered stage-5 stream has at most one terminal event (done   *)
(* or error) and nothing follows it.                                       *)
(***************************************************************************)
C7_OneTerminalLast ==
    \A i \in 1..Len(delivered) :
        delivered[i].type \in {"done", "error"} => i = Len(delivered)

(***************************************************************************)
(* C8: every plan point produces exactly one point_complete event: when    *)
(* done is emitted, the point_complete events are as many as the points.   *)
(***************************************************************************)
PointCompletes == {i \in 1..Len(delivered) : delivered[i].type = "point_complete"}

C8_PointCompletePerPoint ==
    DoneDelivered => Cardinality(PointCompletes) = Len(plan_points)

(***************************************************************************)
(* C9: every event of plan point k is emitted before any event of point    *)
(* k+1, and the consumer receives the events in the order the loop         *)
(* produced them.                                                          *)
(***************************************************************************)
PointOf(line) == line.message.point

C9_PointOrder ==
    /\ \A i, j \in 1..Len(delivered) :
          (i < j /\ PointOf(delivered[i]) > 0 /\ PointOf(delivered[j]) > 0)
             => PointOf(delivered[i]) <= PointOf(delivered[j])
    /\ Len(produced) <= Len(delivered)
    /\ \A i \in 1..Len(produced) : delivered[i] = Line(produced[i])

\* a stream with events of point 1 and of point 2, closed by done
C9_Witness ==
    /\ DoneDelivered
    /\ \E i, j \in 1..Len(delivered) :
          /\ i < j
          /\ PointOf(delivered[i]) = 1 /\ delivered[i].type = "point_complete"
          /\ PointOf(delivered[j]) = 2 /\ delivered[j].type = "sources"

(***************************************************************************)
(* C10: a run over two plan points in which every step of both points      *)
(* succeeds (both dossiers are committed) and that has emitted done.       *)
(***************************************************************************)
Types(lines) == [i \in 1..Len(lines) |-> lines[i].type]

TwoPointsAllSucceeded ==
    /\ Len(plan_points) = 2
    /\ Len(context.dossiers) = 2
    /\ delivered # <<>>
    /\ delivered[Len(delivered)].type = "done"

\* as claimed: status, sources, point_complete per point, then synthesis_start, done
C10_StreamAsClaimed ==
    TwoPointsAllSucceeded =>
        Types(delivered) = <<"status", "sources", "point_complete",
                             "status", "sources", "point_complete",
                             "synthesis_start", "done">>

PointTypes == <<"status", "status", "status", "sources", "status", "status",
                "point_complete">>

\* as the code emits: an opening status, then per point the status events of
\* the phases around sources and point_complete, then synthesis_start, done
C10_StreamOrder ==
    TwoPointsAllSucceeded =>
        Types(delivered) = <<"status">> \o PointTypes \o PointTypes
                              \o <<"synthesis_start", "done">>

C10_Witness == TwoPointsAllSucceeded

(***************************************************************************)
(* SpecDeepLive: the stage-5 request driven to its end.  generate() pulls  *)
(* the next event as soon as the previous line is sent, and every call the *)
(* generator waits on (model, search, fetch) returns within its timeout,   *)
(* so a step that can be taken is eventually taken.                        *)
(***************************************************************************)
SpecDeepLive == InitDeep /\ [][NextDeep]_vars /\ WF_vars(NextDeep)

DoneYielded == \E i \in 1..Len(produced) : produced[i].type = "done"

\* the loop has taken every plan point up
AllPointsTaken ==
    \A k \in 1..Len(plan_points) :
        \E i \in 1..Len(produced) : produced[i] = ProcessingEvent(k)

(***************************************************************************)
(* C11: whatever steps of whatever points fail (no model response, no      *)
(* search results, no URLs picked, nothing fetched, no dossier), once      *)
(* deep_research is started it takes up every plan point and eventually    *)
(* yields done.                                                            *)
(***************************************************************************)
C11_AdvancesToDone == (pc = "deep_start") ~> (DoneYielded /\ AllPointsTaken)

\* done after a run whose first point failed after its think phase and
\* whose second point committed a dossier
C11_Witness ==
    /\ DoneYielded
    /\ Len(plan_points) = 2
    /\ Len(context.dossiers) = 1
    /\ context.dossiers[1].point = "P2"
    /\ \E i \in 1..Len(produced) : produced[i] = SearchingEvent(1)

(***************************************************************************)
(* SpecDeepCancel: the stage-5 request with a consumer that may close the  *)
(* stream.  Closing the stream cancels generate() where it is suspended:   *)
(* at the yield of a line or inside an awaited call of deep_research.  The *)
(* CancelledError / GeneratorExit raised there is no Exception, so the     *)
(* except branch of generate() does not run.                               *)
(***************************************************************************)
\* a generate() whose except branch also catches the cancellation
CancelCaught ==
    /\ pc \notin {"closed", "cancelled"}
    /\ pc' = "cancelled"
    /\ delivered' = Deliver(delivered, ErrorLine)
    /\ UNCHANGED <<context, last_call, calls, routeVars, scraper, plan_points, session,
                   point_idx, search_queries, urls, scraped, dossier_response,
                   dossier_text, key_learnings, final_document, produced>>

Cancel ==
    /\ pc \notin {"closed", "cancelled"}
    /\ pc' = "cancelled"
    /\ UNCHANGED <<context, last_call, calls, routeVars, scraper, plan_points, session,
                   point_idx, search_queries, urls, scraped, dossier_response,
                   dossier_text, key_learnings, final_document, produced,
                   delivered>>

NextDeepCancel == NextDeep \/ Cancel

SpecDeepCancel == InitDeep /\ [][NextDeepCancel]_vars

\* the stream was cancelled when the last event deep_research had yielded
\* was the point_complete of the first successful point
CancelledAfterFirstComplete ==
    /\ pc = "cancelled"
    /\ produced # <<>>
    /\ LET last == produced[Len(produced)]
       IN  /\ last.type = "point_complete"
           /\ ~last.data.skipped
           /\ \A i \in 1..(Len(produced) - 1) :
                 produced[i].type = "point_complete" => produced[i].data.skipped

(***************************************************************************)
(* C12: when the consumer cancels right after the point_complete of the    *)
(* first successful point, the stream holds neither done nor error, and    *)
(* the ContextState holds exactly that point's dossier, its sources in the *)
(* registry, its learnings appended, current_step = 5, and nothing of a    *)
(* later point.                                                            *)
(***************************************************************************)
C12_CancelAfterFirstPoint ==
    CancelledAfterFirstComplete =>
        LET last == produced[Len(produced)]
            reg  == context.source_registry
        IN  /\ \A i \in 1..Len(delivered) : delivered[i].type \notin {"done", "error"}
            /\ context.current_step = 5
            /\ Len(context.dossiers) = 1
            /\ context.dossiers[1].point = plan_points[last.data.point_number]
            /\ context.dossiers[1].dossier = dossier_text
            /\ {reg[k] : k \in DOMAIN reg}
                 = {context.dossiers[1].sources[i] :
                        i \in 1..Len(context.dossiers[1].sources)}
            /\ context.key_learnings =
                 IF key_learnings # <<>> /\ Strip(key_learnings) # <<>>
                 THEN <<Strip(key_learnings)>> ELSE <<>>
            /\ session.phase = "researching"

\* cancelled after the first point of two committed a dossier with learnings
C12_Witness ==
    /\ CancelledAfterFirstComplete
    /\ Len(plan_points) = 2
    /\ Len(context.dossiers) = 1
    /\ context.dossiers[1].point = "P1"
    /\ Len(context.key_learnings) = 1

(***************************************************************************)
(* SpecRoutes: the route handlers of routes/research.py serving requests   *)
(* of several users concurrently on one event loop.  A handler runs        *)
(* without interruption up to its first await that suspends (ReqStart) and *)
(* from there to its response (ReqFinish); other requests run in between.  *)
(* requests holds the handlers that are suspended, calls counts the        *)
(* requests received and last_call is the handler that returned last.      *)
(***************************************************************************)
\* requests received in SpecRoutes
MaxRequests == 4

Users == {"u1", "u2"}

\* user.preferences["provider"] / request.provider
UserProvider(user) == IF user = "u1" THEN "openrouter" ELSE "openai"

\* get_api_key(user, provider)
UserKey(user) == IF user = "u1" THEN "k1" ELSE "k2"

\* set_api_config(key, provider): the slot it leaves
set_api_config(key, provider) ==
    [key |-> key, provider |-> provider, base_url |-> PROVIDER_CONFIG(provider)]

\* the configuration a request's pipeline was constructed with
OwnConfig(user) == set_api_config(UserKey(user), UserProvider(user))

\* no model call issued
NoConfig == [key |-> "none", provider |-> "none", base_url |-> "none"]

\* call_chat_completion: url, provider and headers are read from the slot
call_chat_completion == api_config

RouteKinds == {"overview", "search", "clarify", "plan", "deep"}

InitRoutes ==
    /\ context = NewContextState("en", FALSE)
    /\ last_call = NoCall
    /\ calls = 0
    /\ DeepIdle

\* ResearchSession(user_id=..., title=...) with the column defaults;
\* committed is history: the keys handlers have committed to context_state
NewRow(user) ==
    [user_id |-> user, phase |-> "initial", context_state |-> EmptyDict,
     committed |-> {}]

\* a handler: its request, the session row it loaded (sid, ctx), its
\* pipeline's ContextState and the configuration its model call was sent with
Request(kind, user, sid, ctx, c, used) ==
    [kind |-> kind, user |-> user, sid |-> sid, ctx |-> ctx, context |-> c,
     used |-> used]

\* the handler has returned its response
Returned(req, wrote) ==
    [op |-> "request", kind |-> req.kind, user |-> req.user, sid |-> req.sid,
     context |-> req.context, used |-> req.used, wrote |-> wrote]

\* The handler up to its first suspension.  research_overview constructs the
\* pipeline and runs get_overview, whose model call is synchronous; it fails
\* with HTTP 500 or suspends in get_or_create_session.  The other handlers
\* return from the select, construct the pipeline and enter the stage:
\* search_and_pick and clarify suspend in execute_searches / scrape_urls_batch
\* before their model call, deep_research in its first awaited call;
\* create_plan issues its model call at once and the handler suspends in
\* db.commit.
ReqStart ==
    \E kind \in RouteKinds, user \in Users :
        LET fresh == NewContextState("en", FALSE)
        IN  /\ calls < MaxRequests
            /\ calls' = calls + 1
            /\ api_config' = OwnConfig(user)
            /\ IF kind = "overview"
               THEN \E response \in OverviewResponses :
                        LET r == get_overview(fresh, "q", response)
                            req == Request(kind, user, 0, EmptyDict, r.context,
                                           OwnConfig(user))
                        IN  IF r.error
                            THEN /\ last_call' = Returned(req, FALSE)
                                 /\ UNCHANGED requests
                            ELSE /\ requests' = Append(requests, req)
                                 /\ UNCHANGED last_call
               ELSE \E sid \in 1..Len(db_rows) :
                        /\ db_rows[sid].user_id = user
                        /\ UNCHANGED last_call
                        /\ LET ctx == db_rows[sid].context_state
                           IN  IF kind = "plan"
                               THEN \E response \in PlanResponses :
                                        requests' = Append(requests,
                                            Request(kind, user, sid, ctx,
                                                    create_plan(fresh, ctx["user_query"],
                                                                <<"a">>, <<>>,
                                                                response).context,
                                                    OwnConfig(user)))
                               ELSE requests' = Append(requests,
                                        Request(kind, user, sid, ctx,
                                                [fresh EXCEPT !.current_step =
                                                    CASE kind = "search"  -> 2
                                                      [] kind = "clarify" -> 3
                                                      [] kind = "deep"    -> 5],
                                                NoConfig))
            /\ UNCHANGED <<context, deepVars, scraper, db_rows>>

\* session.context_state = ctx; session.phase = phase; await db.commit():
\* the column is written whole
WriteRow(rows, sid, ctx, phase, key) ==
    [rows EXCEPT ![sid] = [@ EXCEPT !.context_state = ctx, !.phase = phase,
                                    !.committed = @ \cup {key}]]

\* s with its i-th element removed
Without(s, i) == SubSeq(s, 1, i - 1) \o SubSeq(s, i + 1, Len(s))

\* The handler from its suspension to its response.
ReqFinish ==
    \E i \in 1..Len(requests) :
        LET req == requests[i]
        IN  /\ requests' = Without(requests, i)
            /\ \/ /\ req.kind = "overview"
                  /\ db_rows' = Append(db_rows,
                        [NewRow(req.user) EXCEPT
                            !.context_state = [user_query |-> "q",
                                               queries |-> req.context.queries],
                            !.committed = {"user_query", "queries"}])
                  /\ last_call' = Returned([req EXCEPT !.sid = Len(db_rows) + 1], TRUE)
               \/ /\ req.kind = "search"
                  /\ \E queries \in QueryLists, pick_response \in PickResponses :
                        LET r == search_and_pick(req.context, req.ctx["user_query"],
                                                 queries, [q \in {"s"} |-> <<"r">>],
                                                 pick_response)
                        IN  /\ last_call' = Returned(
                                  [req EXCEPT !.context = r.context,
                                              !.used = IF r.error THEN NoConfig
                                                       ELSE call_chat_completion],
                                  ~r.error)
                            /\ db_rows' = IF r.error THEN db_rows
                                          ELSE WriteRow(db_rows, req.sid,
                                                 DictPut(req.ctx, "urls", r.context.urls),
                                                 db_rows[req.sid].phase, "urls")
               \/ /\ req.kind = "clarify"
                  /\ \E fetched \in SubLists(<<"A">>), response \in ClarifyResponses :
                        LET r == clarify(req.context, req.ctx["user_query"], <<"A">>,
                                         fetched, response)
                        IN  /\ last_call' = Returned(
                                  [req EXCEPT !.context = r.context,
                                              !.used = IF r.error THEN NoConfig
                                                       ELSE call_chat_completion],
                                  ~r.error)
                            /\ db_rows' = IF r.error THEN db_rows
                                          ELSE WriteRow(db_rows, req.sid,
                                                 DictPut(req.ctx, "clarification",
                                                         response.ok),
                                                 "clarifying", "clarification")
               \/ /\ req.kind = "plan"
                  /\ last_call' = Returned(req, req.context.plan_points # <<>>)
                  /\ db_rows' = IF req.context.plan_points = <<>> THEN db_rows
                                ELSE WriteRow(db_rows, req.sid,
                                       DictPut(DictPut(req.ctx, "research_plan",
                                                       req.context.plan_points),
                                               "clarification_answers", <<"a">>),
                                       "planning", "research_plan")
               \/ /\ req.kind = "deep"
                  /\ last_call' = Returned([req EXCEPT !.used = call_chat_completion],
                                           TRUE)
                  /\ db_rows' = [db_rows EXCEPT ![req.sid] = [@ EXCEPT !.phase = "done"]]
            /\ UNCHANGED <<context, calls, deepVars, scraper, api_config>>

NextRoutes == ReqStart \/ ReqFinish

SpecRoutes == InitRoutes /\ [][NextRoutes]_vars

(***************************************************************************)
(* C13: every model call a stage of a session issues is sent with the      *)
(* provider, base URL and key that session's pipeline was constructed      *)
(* with, whatever other sessions do in between: the process-wide slot is   *)
(* not written by another pipeline's construction while the stage is in    *)
(* flight.                                                                 *)
(***************************************************************************)
ModelCallsOwnConfig ==
    (last_call.op = "request" /\ last_call.used # NoConfig) =>
        last_call.used = OwnConfig(last_call.user)

\* a suspended stage that has its model call ahead finds the slot as its
\* pipeline set it
SlotKeptWhileInFlight ==
    \A i \in 1..Len(requests) :
        requests[i].used = NoConfig => api_config = OwnConfig(requests[i].user)

C13_OwnProviderConfig == ModelCallsOwnConfig /\ SlotKeptWhileInFlight

(***************************************************************************)
(* C14: for one session at most one of the stage handlers 1-4 is in flight *)
(* at any time, and no key a handler has committed to the session's        *)
(* persisted state is lost to another handler's write.                     *)
(***************************************************************************)
StageKinds == {"search", "clarify", "plan"}

SingleInFlight ==
    \A i, j \in 1..Len(requests) :
        (/\ requests[i].kind \in StageKinds
         /\ requests[j].kind \in StageKinds
         /\ requests[i].sid = requests[j].sid) => i = j

NoLostUpdate ==
    \A sid \in 1..Len(db_rows) :
        db_rows[sid].committed \subseteq DOMAIN db_rows[sid].context_state

C14_StagesSerialized == SingleInFlight /\ NoLostUpdate

(***************************************************************************)
(* C15: once overview, search_and_pick and plan have completed for a       *)
(* session, the ContextState the next stage call on that session works on  *)
(* holds the original_query, queries, urls, plan_points and session_id the *)
(* earlier stages stored, and the persisted state is the ContextState      *)
(* serialization holding them.                                             *)
(***************************************************************************)
EarlierStagesDone(sid) ==
    {"user_query", "queries", "urls", "research_plan"} \subseteq db_rows[sid].committed

C15_StateCarriedOver ==
    \A i \in 1..Len(requests) :
        LET req == requests[i]
        IN  (req.sid > 0 /\ EarlierStagesDone(req.sid)
               /\ {"urls", "research_plan"} \subseteq DOMAIN req.ctx) =>
                /\ req.context.original_query = req.ctx["user_query"]
                /\ req.context.queries = req.ctx["queries"]
                /\ req.context.urls = req.ctx["urls"]
                /\ req.context.plan_points = req.ctx["research_plan"]
                /\ {"original_query", "queries", "urls", "plan_points", "session_id"}
                      \subseteq DOMAIN req.ctx

(***************************************************************************)
(* URLs: texts, taken apart as urllib.parse.urlsplit takes them apart       *)
(***************************************************************************)
UpperChars ==
    <<"A", "B", "C", "D", "E", "F", "G", "H", "I", "J", "K", "L", "M", "N",
        "O", "P", "Q", "R", "S", "T", "U", "V", "W", "X", "Y", "Z">>

LowerChars ==
    <<"a", "b", "c", "d", "e", "f", "g", "h", "i", "j", "k", "l", "m", "n",
        "o", "p", "q", "r", "s", "t", "u", "v", "w", "x", "y", "z">>

IsAlpha(ch) == \E i \in 1..26 : ch = UpperChars[i] \/ ch = LowerChars[i]

\* str.lower()
Lower(text) ==
    [i \in 1..Len(text) |->
        IF \E k \in 1..26 : UpperChars[k] = text[i]
        THEN LowerChars[CHOOSE k \in 1..26 : UpperChars[k] = text[i]]
        ELSE text[i]]

\* text.find(one of chars, p): the first position >= p, 0 when there is none
Find(text, chars, p) ==
    LET hits == {i \in p..Len(text) : text[i] \in chars}
    IN  IF hits = {} THEN 0 ELSE CHOOSE i \in hits : \A j \in hits : i <= j

\* text.rfind(ch): the last position, 0 when there is none
RFind(text, ch) ==
    LET hits == {i \in 1..Len(text) : text[i] = ch}
    IN  IF hits = {} THEN 0 ELSE CHOOSE i \in hits : \A j \in hits : j <= i

\* text.endswith(suffix)
EndsWith(text, suffix) ==
    /\ Len(suffix) <= Len(text)
    /\ SubSeq(text, Len(text) - Len(suffix) + 1, Len(text)) = suffix

\* text.split(sep) for a one-character sep
RECURSIVE Split(_, _)
Split(text, sep) ==
    LET i == Find(text, {sep}, 1)
    IN  IF i = 0 THEN <<text>>
        ELSE <<SubSeq(text, 1, i - 1)>> \o Split(SubSeq(text, i + 1, Len(text)), sep)

\* int(text) for a text of decimal digits
RECURSIVE ParseInt(_)
ParseInt(text) ==
    IF text = <<>> THEN 0
    ELSE 10 * ParseInt(SubSeq(text, 1, Len(text) - 1)) + DigitValue(text[Len(text)])

IsDigits(text) == text # <<>> /\ \A i \in 1..Len(text) : IsDigit(text[i])

\* urllib.parse.scheme_chars
SchemeChars ==
    {UpperChars[i] : i \in 1..26} \cup {LowerChars[i] : i \in 1..26}
        \cup {DigitChars[i] : i \in 1..10} \cup {"+", "-", "."}

\* urlsplit(url): the scheme is what precedes the first ":" when it is made of
\* scheme characters and begins with a letter; the netloc follows "//" up to
\* the first "/", "?" or "#".  invalid stands for the ValueError raised for a
\* netloc with one square bracket but not the other.  The URLs of the model
\* hold no blanks or control characters, which urlsplit would remove first.
urlsplit(url) ==
    LET i          == Find(url, {":"}, 1)
        has_scheme == /\ i > 1
                      /\ IsAlpha(url[1])
                      /\ \A k \in 1..(i - 1) : url[k] \in SchemeChars
        rest       == IF has_scheme THEN SubSeq(url, i + 1, Len(url)) ELSE url
        has_netloc == StartsWith(rest, 1, <<"/", "/">>)
        delim      == Find(rest, {"/", "?", "#"}, 3)
        netloc     == IF ~has_netloc THEN <<>>
                      ELSE IF delim = 0 THEN SubSeq(rest, 3, Len(rest))
                      ELSE SubSeq(rest, 3, delim - 1)
    IN  [ scheme  |-> IF has_scheme THEN Lower(SubSeq(url, 1, i - 1)) ELSE <<>>,
          netloc  |-> netloc,
          invalid |-> (Find(netloc, {"["}, 1) # 0) # (Find(netloc, {"]"}, 1) # 0) ]

\* SplitResult._hostinfo: what follows the last "@", split into host and port;
\* a host in square brackets ends at the "]"
hostinfo(netloc) ==
    LET at   == RFind(netloc, "@")
        info == SubSeq(netloc, at + 1, Len(netloc))
        open == Find(info, {"["}, 1)
    IN  IF open # 0
        THEN LET bracketed == SubSeq(info, open + 1, Len(info))
                 close     == Find(bracketed, {"]"}, 1)
                 after     == IF close = 0 THEN <<>>
                              ELSE SubSeq(bracketed, close + 1, Len(bracketed))
                 colon     == Find(after, {":"}, 1)
             IN  [ host |-> IF close = 0 THEN bracketed
                            ELSE SubSeq(bracketed, 1, close - 1),
                   port |-> IF colon = 0 THEN <<>>
                            ELSE SubSeq(after, colon + 1, Len(after)) ]
        ELSE LET colon == Find(info, {":"}, 1)
             IN  [ host |-> IF colon = 0 THEN info ELSE SubSeq(info, 1, colon - 1),
                   port |-> IF colon = 0 THEN <<>>
                            ELSE SubSeq(info, colon + 1, Len(info)) ]

\* SplitResult.hostname: lower case, <<>> for None
hostname(netloc) == Lower(hostinfo(netloc).host)

\* SplitResult.port: value 0 for None (the callers only test "if port"),
\* invalid for the ValueError of a port that is no number or is above 65535
port(netloc) ==
    LET p == hostinfo(netloc).port
    IN  IF p = <<>> THEN [invalid |-> FALSE, value |-> 0]
        ELSE IF ~IsDigits(p) \/ Len(p) > 5 THEN [invalid |-> TRUE, value |-> 0]
        ELSE [invalid |-> ParseInt(p) > 65535, value |-> ParseInt(p)]

\* ipaddress.IPv4Address(host): the four octets, <<>> for the ValueError of a
\* text that is no dotted quad (an octet is 1 to 3 digits, has no leading
\* zero and is at most 255)
IPv4Address(host) ==
    LET parts == Split(host, ".")
        IsOctet(t) == /\ IsDigits(t)
                      /\ Len(t) <= 3
                      /\ ~(Len(t) > 1 /\ t[1] = "0")
                      /\ ParseInt(t) <= 255
    IN  IF Len(parts) = 4 /\ \A k \in 1..4 : IsOctet(parts[k])
        THEN [k \in 1..4 |-> ParseInt(parts[k])]
        ELSE <<>>

\* IPv4Address.is_private: membership in ipaddress._private_networks
is_private(ip) ==
    \/ ip[1] = 0
    \/ ip[1] = 10
    \/ ip[1] = 127
    \/ ip[1] = 169 /\ ip[2] = 254
    \/ ip[1] = 172 /\ ip[2] \in 16..31
    \/ ip[1] = 192 /\ ip[2] = 0 /\ ip[3] = 0 /\ ip[4] \in (0..7) \cup {170, 171}
    \/ ip[1] = 192 /\ ip[2] = 0 /\ ip[3] = 2
    \/ ip[1] = 192 /\ ip[2] = 168
    \/ ip[1] = 198 /\ ip[2] \in {18, 19}
    \/ ip[1] = 198 /\ ip[2] = 51 /\ ip[3] = 100
    \/ ip[1] = 203 /\ ip[2] = 0 /\ ip[3] = 113
    \/ ip[1] >= 240

is_loopback(ip) == ip[1] = 127

is_link_local(ip) == ip[1] = 169 /\ ip[2] = 254

is_reserved(ip) == ip[1] >= 240

is_multicast(ip) == ip[1] \in 224..239

(***************************************************************************)
(* core/security.py: the SSRF validator                                    *)
(***************************************************************************)
MAX_URL_LENGTH == 2048

BLOCKED_PORTS == {22, 23, 25, 3306, 5432, 6379, 27017, 11211}

PRIVATE_HOSTNAMES ==
    { <<"l", "o", "c", "a", "l", "h", "o", "s", "t">>,
      <<"l", "o", "c", "a", "l", "h", "o", "s", "t", ".", "l", "o", "c", "a",
          "l", "d", "o", "m", "a", "i", "n">>,
      <<"1", "2", "7", ".", "0", ".", "0", ".", "1">>,
      <<"0", ".", "0", ".", "0", ".", "0">>,
      <<":", ":", "1">>,
      <<"[", ":", ":", "1", "]">> }

InternalSuffixes ==
    { <<".", "l", "o", "c", "a", "l">>,
      <<".", "i", "n", "t", "e", "r", "n", "a", "l">>,
      <<".", "l", "a", "n">>,
      <<".", "l", "o", "c", "a", "l", "h", "o", "s", "t">> }

\* validate_url without its port check
validate_url_any_port(url, allow_private) ==
    IF url = <<>> \/ Len(url) > MAX_URL_LENGTH THEN FALSE
    ELSE LET parsed == urlsplit(url)
             host   == hostname(parsed.netloc)
             ip     == IPv4Address(host)
         IN  /\ ~parsed.invalid
             /\ parsed.scheme \in {<<"h", "t", "t", "p">>, <<"h", "t", "t",
                 "p", "s">>}
             /\ host # <<>>
             /\ allow_private \/ host \notin PRIVATE_HOSTNAMES
             /\ allow_private \/ \A suffix \in InternalSuffixes : ~EndsWith(host, suffix)
             /\ ~port(parsed.netloc).invalid
             /\ \/ allow_private
                \/ ip = <<>>
                \/ ~(is_private(ip) \/ is_loopback(ip) \/ is_link_local(ip)
                        \/ is_reserved(ip) \/ is_multicast(ip))

\* validate_url(url, allow_private): every "return False" and every exception
\* of the body is a conjunct that fails.  The only IPv6 literal among the
\* URLs of the model is ::1, which PRIVATE_HOSTNAMES rejects before
\* ipaddress.ip_address is reached, so ip_address is IPv4Address here.
validate_url(url, allow_private) ==
    IF url = <<>> \/ Len(url) > MAX_URL_LENGTH THEN FALSE
    ELSE LET parsed == urlsplit(url)
             host   == hostname(parsed.netloc)
             ip     == IPv4Address(host)
         IN  /\ ~parsed.invalid
             /\ parsed.scheme \in {<<"h", "t", "t", "p">>, <<"h", "t", "t",
                 "p", "s">>}
             /\ host # <<>>
             /\ allow_private \/ host \notin PRIVATE_HOSTNAMES
             /\ allow_private \/ \A suffix \in InternalSuffixes : ~EndsWith(host, suffix)
             /\ ~port(parsed.netloc).invalid
             /\ port(parsed.netloc).value \notin BLOCKED_PORTS
             /\ \/ allow_private
                \/ ip = <<>>
                \/ ~(is_private(ip) \/ is_loopback(ip) \/ is_link_local(ip)
                        \/ is_reserved(ip) \/ is_multicast(ip))

\* [url for url in urls if validate_url(url, allow_private)]
RECURSIVE validate_urls(_, _)
validate_urls(url_list, allow_private) ==
    IF url_list = <<>> THEN <<>>
    ELSE (IF validate_url(Head(url_list), allow_private)
          THEN <<Head(url_list)>> ELSE <<>>)
            \o validate_urls(Tail(url_list), allow_private)

(***************************************************************************)
(* SpecValidate: one call of validate_url or validate_urls                 *)
(***************************************************************************)
\* the longest list handed to validate_urls
MaxUrls == 2

\* the ten URLs the validator is specified to reject
RejectedExamples ==
    { <<"f", "i", "l", "e", ":", "/", "/", "/", "e", "t", "c", "/", "p", "a",
        "s", "s", "w", "d">>,
      <<"j", "a", "v", "a", "s", "c", "r", "i", "p", "t", ":", "a", "l", "e",
          "r", "t", "(", "1", ")">>,
      <<"h", "t", "t", "p", ":", "/", "/", "l", "o", "c", "a", "l", "h", "o",
          "s", "t", "/", "x">>,
      <<"h", "t", "t", "p", ":", "/", "/", "1", "2", "7", ".", "0", ".", "0",
          ".", "1", "/">>,
      <<"h", "t", "t", "p", ":", "/", "/", "[", ":", ":", "1", "]", "/">>,
      <<"h", "t", "t", "p", ":", "/", "/", "1", "6", "9", ".", "2", "5", "4",
          ".", "1", "6", "9", ".", "2", "5", "4", "/", "l", "a", "t", "e",
          "s", "t", "/", "m", "e", "t", "a", "-", "d", "a", "t", "a", "/">>,
      <<"h", "t", "t", "p", ":", "/", "/", "1", "0", ".", "0", ".", "0", ".",
          "1", "/">>,
      <<"h", "t", "t", "p", ":", "/", "/", "1", "9", "2", ".", "1", "6", "8",
          ".", "1", ".", "1", "/">>,
      <<"h", "t", "t", "p", "s", ":", "/", "/", "e", "x", "a", "m", "p", "l",
          "e", ".", "c", "o", "m", ":", "2", "2", "/">>,
      <<"h", "t", "t", "p", ":", "/", "/", "x", ".", "l", "o", "c", "a", "l",
          "/">> }

\* public hosts, an upper-case host, a port out of range, a private address
\* behind a user name, a port that is not blocked
OtherExamples ==
    { <<"h", "t", "t", "p", "s", ":", "/", "/", "e", "x", "a", "m", "p", "l",
        "e", ".", "c", "o", "m", "/", "a">>,
      <<"h", "t", "t", "p", ":", "/", "/", "8", ".", "8", ".", "8", ".", "8",
          "/">>,
      <<"h", "t", "t", "p", "s", ":", "/", "/", "e", "x", "a", "m", "p", "l",
          "e", ".", "c", "o", "m", ":", "8", "0", "8", "0", "/">>,
      <<"h", "t", "t", "p", ":", "/", "/", "L", "o", "c", "a", "l", "H", "o",
          "s", "t", "/">>,
      <<"h", "t", "t", "p", ":", "/", "/", "e", "x", "a", "m", "p", "l", "e",
          ".", "c", "o", "m", ":", "9", "9", "9", "9", "9", "/">>,
      <<"h", "t", "t", "p", ":", "/", "/", "u", "@", "1", "0", ".", "0", ".",
          "0", ".", "1", "/">> }

SampleURLs == RejectedExamples \cup OtherExamples

InitValidate ==
    /\ context = NewContextState("en", FALSE)
    /\ last_call = NoCall
    /\ calls = 0
    /\ DeepIdle

ValidateUrl ==
    \E url \in SampleURLs \cup {<<>>}, allow_private \in BOOLEAN :
        /\ last_call = NoCall
        /\ last_call' = [ op            |-> "validate_url",
                          url           |-> url,
                          allow_private |-> allow_private,
                          ret           |-> validate_url(url, allow_private) ]
        /\ UNCHANGED <<context, calls, deepVars, routeVars, scraper>>

ValidateUrls ==
    \E url_list \in SeqsUpTo(SampleURLs, MaxUrls), allow_private \in BOOLEAN :
        /\ last_call = NoCall
        /\ last_call' = [ op            |-> "validate_urls",
                          urls          |-> url_list,
                          allow_private |-> allow_private,
                          ret           |-> validate_urls(url_list, allow_private) ]
        /\ UNCHANGED <<context, calls, deepVars, routeVars, scraper>>

NextValidate == ValidateUrl \/ ValidateUrls

SpecValidate == InitValidate /\ [][NextValidate]_vars

(***************************************************************************)
(* C18: validate_url, called as the pipeline calls it (allow_private left  *)
(* at False), returns false for each of file:///etc/passwd,                *)
(* javascript:alert(1), http://localhost/x, http://127.0.0.1/,             *)
(* http://[::1]/, http://169.254.169.254/latest/meta-data/,                *)
(* http://10.0.0.1/, http://192.168.1.1/, https://example.com:22/ and      *)
(* http://x.local/; and validate_urls returns exactly the URLs of its      *)
(* input that validate_url accepts, each as often as it occurs, in input   *)
(* order.                                                                  *)
(***************************************************************************)
C18_ValidatorRejects ==
    /\ (last_call.op = "validate_url" /\ ~last_call.allow_private
            /\ last_call.url \in RejectedExamples)
        => last_call.ret = FALSE
    /\ last_call.op = "validate_urls" =>
        LET given    == last_call.urls
            accepted == {i \in 1..Len(given) :
                            validate_url(given[i], last_call.allow_private)}
            Nth(n)   == CHOOSE i \in accepted :
                            Cardinality({j \in accepted : j < i}) = n - 1
        IN  /\ Len(last_call.ret) = Cardinality(accepted)
            /\ \A n \in 1..Len(last_call.ret) : last_call.ret[n] = given[Nth(n)]
            /\ ~last_call.allow_private =>
                \A n \in 1..Len(last_call.ret) :
                    last_call.ret[n] \notin RejectedExamples

\* validate_urls kept the second of two URLs and dropped a blocked port
C18_Witness ==
    /\ last_call.op = "validate_urls"
    /\ ~last_call.allow_private
    /\ Len(last_call.urls) = 2
    /\ last_call.urls[1] = <<"h", "t", "t", "p", "s", ":", "/", "/", "e",
        "x", "a", "m", "p", "l", "e", ".", "c", "o", "m", ":", "2", "2", "/">>
    /\ last_call.ret = <<last_call.urls[2]>>

(***************************************************************************)
(* Picking URLs from a model response and fetching them                    *)
(***************************************************************************)
\* s[:n]
Take(s, n) == SubSeq(s, 1, IF Len(s) < n THEN Len(s) ELSE n)

\* core/scraper.py validate_url: the URL begins with http:// or https://
\* (as written), and none of private_patterns matches it, case ignored
scraper_validate_url(url) ==
    LET lower == Lower(url)
        at    == IF StartsWith(lower, 1, <<"h", "t", "t", "p", "s", ":", "/",
            "/">>) THEN 9 ELSE 8
        Host(prefix) == StartsWith(lower, at, prefix)
    IN  /\ url # <<>>
        /\ \/ StartsWith(url, 1, <<"h", "t", "t", "p", ":", "/", "/">>)
           \/ StartsWith(url, 1, <<"h", "t", "t", "p", "s", ":", "/", "/">>)
        /\ ~Host(<<"l", "o", "c", "a", "l", "h", "o", "s", "t">>)
        /\ ~Host(<<"1", "2", "7", ".">>)
        /\ ~Host(<<"1", "0", ".">>)
        /\ ~(/\ Host(<<"1", "7", "2", ".">>)
             /\ at + 6 <= Len(lower)
             /\ IsDigits(SubSeq(lower, at + 4, at + 5))
             /\ ParseInt(SubSeq(lower, at + 4, at + 5)) \in 16..31
             /\ lower[at + 6] = ".")
        /\ ~Host(<<"1", "9", "2", ".", "1", "6", "8", ".">>)
        /\ ~Host(<<"[", ":", ":", "1", "]">>)
        /\ ~Host(<<"0", ".", "0", ".", "0", ".", "0">>)

\* core/scraper.py validate_urls
scraper_validate_urls(url_list) == SelectSeq(url_list, scraper_validate_url)

MAX_URLS_PER_BATCH == 100

\* scrape_urls_batch without the cut to MAX_URLS_PER_BATCH
scrape_urls_batch_uncapped(url_list) == scraper_validate_urls(url_list)

\* scrape_urls_batch: safe_urls, the URLs page.goto is called with, in order
scrape_urls_batch(url_list) ==
    scraper_validate_urls(Take(url_list, MAX_URLS_PER_BATCH))

\* parse_pick_urls_response: of every line "url...: <url>" the text after the
\* first colon, kept when it begins with http and security.validate_url
\* accepts it
parse_pick_urls_response(response) ==
    LET lines == Split(Strip(response), "\n")
        UrlOf(raw) ==
            LET line  == Strip(raw)
                colon == Find(line, {":"}, 1)
            IN  IF StartsWith(Lower(line), 1, <<"u", "r", "l">>) /\ colon # 0
                THEN Strip(SubSeq(line, colon + 1, Len(line)))
                ELSE <<>>
        Keep(raw) ==
            LET url == UrlOf(raw)
            IN  /\ url # <<>>
                /\ Len(url) <= MAX_URL_LENGTH
                /\ StartsWith(url, 1, <<"h", "t", "t", "p">>)
                /\ validate_url(url, FALSE)
        kept == SelectSeq(lines, Keep)
    IN  Take([i \in 1..Len(kept) |-> UrlOf(kept[i])], 20)

\* the characters [^\s<>"')\]] excludes
UrlStop == {" ", "\n", "\t", "<", ">", "\"", "'", ")", "]"}

TrailingPunct == {".", ",", ";", ":", "!", "?"}

\* where the match of https?://[^\s<>"')\]]+[^\s<>"')\].,;:!?] that begins at
\* p ends, 0 when there is none: the run after :// is taken as far as it goes
\* and given back up to its last character that is no trailing punctuation
UrlMatchEnd(text, p) ==
    LET q    == IF StartsWith(text, p, <<"h", "t", "t", "p", "s", ":", "/",
        "/">>) THEN p + 8
                ELSE IF StartsWith(text, p, <<"h", "t", "t", "p", ":", "/",
                    "/">>) THEN p + 7
                ELSE 0
        stop == Find(text, UrlStop, q)
        last == IF stop = 0 THEN Len(text) ELSE stop - 1
        ends == {k \in (q + 1)..last : text[k] \notin TrailingPunct}
    IN  IF q = 0 \/ ends = {} THEN 0
        ELSE CHOOSE k \in ends : \A j \in ends : j <= k

\* re.findall(url_pattern, text) from position p
RECURSIVE FindAllUrls(_, _)
FindAllUrls(text, p) ==
    IF p > Len(text) THEN <<>>
    ELSE LET e == UrlMatchEnd(text, p)
         IN  IF e # 0 THEN <<SubSeq(text, p, e)>> \o FindAllUrls(text, e + 1)
             ELSE FindAllUrls(text, p + 1)

\* str.rstrip(chars)
RECURSIVE RStrip(_, _)
RStrip(text, chars) ==
    IF text # <<>> /\ text[Len(text)] \in chars
    THEN RStrip(SubSeq(text, 1, Len(text) - 1), chars)
    ELSE text

\* the loop of parse_urls: a match is appended unless seen or 20 are kept
RECURSIVE ParseUrlsLoop(_, _)
ParseUrlsLoop(matches, kept) ==
    IF matches = <<>> THEN kept
    ELSE LET url == RStrip(Head(matches), TrailingPunct)
         IN  ParseUrlsLoop(Tail(matches),
                 IF (\A i \in 1..Len(kept) : kept[i] # url) /\ Len(kept) < 20
                 THEN Append(kept, url) ELSE kept)

\* parse_urls (the regex fallback): no validation
parse_urls(response) == ParseUrlsLoop(FindAllUrls(response, 1), <<>>)

\* search_and_pick and deep_research: the structured parser, and the regex
\* fallback when it yields nothing; <<>> is the response of a failed call
picked_urls(pick_response) ==
    LET structured == IF pick_response # <<>>
                      THEN parse_pick_urls_response(pick_response) ELSE <<>>
    IN  IF structured = <<>> /\ pick_response # <<>>
        THEN parse_urls(pick_response)
        ELSE structured

(***************************************************************************)
(* SpecFetch: stage 2 picks URLs, stage 3 and a stage 5 point fetch them   *)
(***************************************************************************)
MaxFetchCalls == 2

\* a public page, the metadata address, a private address, a blocked port
FetchURLs ==
    { <<"h", "t", "t", "p", "s", ":", "/", "/", "e", "x", "a", "m", "p", "l",
        "e", ".", "c", "o", "m", "/", "a">>,
      <<"h", "t", "t", "p", ":", "/", "/", "1", "6", "9", ".", "2", "5", "4",
          ".", "1", "6", "9", ".", "2", "5", "4", "/", "l", "a", "t", "e",
          "s", "t", "/", "m", "e", "t", "a", "-", "d", "a", "t", "a", "/">>,
      <<"h", "t", "t", "p", ":", "/", "/", "1", "0", ".", "0", ".", "0", ".",
          "1", "/">>,
      <<"h", "t", "t", "p", "s", ":", "/", "/", "e", "x", "a", "m", "p", "l",
          "e", ".", "c", "o", "m", ":", "2", "2", "/">> }

\* a response in the format the pick prompt asks for
RECURSIVE StructuredLines(_, _)
StructuredLines(us, i) ==
    IF i > Len(us) THEN <<>>
    ELSE <<"\n", "u", "r", "l", " ">> \o Digits(i) \o <<":",
        " ">> \o us[i] \o StructuredLines(us, i + 1)

StructuredResponse(us) ==
    <<"=", "=", "=", " ", "S", "E", "L", "E", "C", "T", "E", "D", " ", "=",
        "=", "=">> \o StructuredLines(us, 1)

\* a response that names the URLs in a sentence
RECURSIVE ProseResponse(_)
ProseResponse(us) ==
    IF us = <<>> THEN <<".">>
    ELSE <<" ", "s", "e", "e",
        " ">> \o Head(us) \o <<",">> \o ProseResponse(Tail(us))

\* the pick responses: the text and the URLs it was written from; the empty
\* text is a failed model call
PickTexts ==
    {[given |-> <<>>, text |-> <<>>]}
        \cup {[given |-> us, text |-> StructuredResponse(us)] :
                us \in SeqsUpTo(FetchURLs, MaxUrls)}
        \cup {[given |-> us, text |-> ProseResponse(us)] :
                us \in SeqsUpTo(FetchURLs, MaxUrls)}

InitFetch ==
    /\ context = NewContextState("en", FALSE)
    /\ last_call = NoCall
    /\ calls = 0
    /\ DeepIdle

Fetched(op, given, r_error, ret, navigated) ==
    /\ calls < MaxFetchCalls
    /\ calls' = calls + 1
    /\ last_call' = [ op        |-> op,
                      given     |-> given,
                      error     |-> r_error,
                      ret       |-> ret,
                      navigated |-> navigated ]
    /\ UNCHANGED <<deepVars, routeVars, scraper>>

\* search_and_pick on a search that returned one result
SearchAndPicked(given, r) ==
    /\ Fetched("search_and_pick", given, r.error, r.context.urls, <<>>)
    /\ context' = r.context

FetchSearchAndPick ==
    \E pick \in PickTexts :
        SearchAndPicked(pick.given,
            search_and_pick(context, "q", <<"s">>, [q \in {"s"} |-> <<"r">>],
                [LlmNone EXCEPT !.ok = pick.text # <<>>,
                                !.urls = picked_urls(pick.text)]))

\* clarify on the URLs of stage 2 or on a URL the client sends
Clarified(url_list, urls_to_scrape, navigated) ==
    \E fetched \in {<<>>, navigated}, response \in ClarifyResponses :
        LET r == clarify(context, "q", urls_to_scrape, fetched, response)
        IN  /\ Fetched("clarify", url_list, r.error, <<>>, navigated)
            /\ context' = r.context

FetchClarify ==
    \E url_list \in {context.urls} \cup {<<u>> : u \in FetchURLs} :
        Clarified(url_list, Take(url_list, 15),
                  scrape_urls_batch(Take(url_list, 15)))

\* the pick and scrape phases of one plan point of deep_research
DeepPointFetched(given, picked) ==
    /\ Fetched("deep_research", given, FALSE, picked,
               IF picked = <<>> THEN <<>> ELSE scrape_urls_batch(picked))
    /\ UNCHANGED context

FetchDeepPoint ==
    \E pick \in PickTexts :
        DeepPointFetched(pick.given, picked_urls(pick.text))

NextFetch == FetchSearchAndPick \/ FetchClarify \/ FetchDeepPoint

SpecFetch == InitFetch /\ [][NextFetch]_vars

(***************************************************************************)
(* C16: every URL the page fetcher navigates to, in stage 3 and in stage   *)
(* 5, whether it came from the structured pick parser, from the regex      *)
(* fallback or from the request, is a URL the SSRF validator of            *)
(* core/security.py accepts.                                               *)
(***************************************************************************)
C16_FetchOnlyValidated ==
    last_call.op # "none" =>
        \A i \in 1..Len(last_call.navigated) :
            validate_url(last_call.navigated[i], FALSE)

(***************************************************************************)
(* C17: when the search returned results and the pick response names URLs  *)
(* that all fail SSRF validation, search_and_pick returns an empty URL     *)
(* list, stores an empty urls list, sets current_step = 2 and returns no   *)
(* error.                                                                  *)
(***************************************************************************)
C17_EmptyPick ==
    (/\ last_call.op = "search_and_pick"
     /\ last_call.given # <<>>
     /\ \A i \in 1..Len(last_call.given) : ~validate_url(last_call.given[i], FALSE))
        => /\ last_call.ret = <<>>
           /\ context.urls = <<>>
           /\ context.current_step = 2
           /\ ~last_call.error

(***************************************************************************)
(* C19: after add_sources(urls), for every URL of the list, whether it is  *)
(* repeated in the list or was registered by an earlier call, the returned *)
(* mapping has exactly one entry whose value is that URL, the key of that  *)
(* entry is the key source_registry holds the URL under after the call,    *)
(* and the mapping has no entry for a URL that was not in the list.        *)
(***************************************************************************)
C19_ReturnedMapping ==
    last_call.op = "add_sources" =>
        LET ret   == last_call.ret
            reg   == context.source_registry
            given == {last_call.urls[i] : i \in 1..Len(last_call.urls)}
        IN  /\ \A u \in given :
                /\ Cardinality({k \in DOMAIN ret : ret[k] = u}) = 1
                /\ \A k \in DOMAIN ret :
                        ret[k] = u => {k2 \in DOMAIN reg : reg[k2] = u} = {k}
            /\ \A k \in DOMAIN ret : ret[k] \in given
            /\ Cardinality(DOMAIN ret) = Cardinality(given)

\* [A, A, B] on a registry {1: B}: the call returns {2: A, 1: B}
C19_Witness ==
    /\ last_call.op = "add_sources"
    /\ last_call.urls = <<"A", "A", "B">>
    /\ last_call.pre = <<"B">>
    /\ last_call.ret = <<"B", "A">>
    /\ context.source_registry = <<"B", "A">>

(***************************************************************************)
(* SpecLifecycle: add_sources, add_dossier, reset and a to_dict/from_dict  *)
(* round trip called, in any order, on one ContextState                    *)
(***************************************************************************)
\* data.get(key, default)
Get(data, key, default) == IF key \in DOMAIN data THEN data[key] ELSE default

\* {int(k): v for k, v in raw_registry.items()}, the keys being the decimal
\* strings of numbers up to MaxCounter
IntKeys(raw_registry) ==
    [k \in {n \in 0..MaxCounter : ToString(n) \in DOMAIN raw_registry}
        |-> raw_registry[ToString(k)]]

\* from_dict without the line that restores source_counter
from_dict_no_counter(data) ==
    [NewContextState("en", FALSE) EXCEPT
        !.session_id              = Get(data, "session_id", @),
        !.session_title           = Get(data, "session_title", ""),
        !.original_query          = Get(data, "original_query", ""),
        !.current_step            = Get(data, "current_step", 0),
        !.queries                 = Get(data, "queries", <<>>),
        !.urls                    = Get(data, "urls", <<>>),
        !.search_results          = Get(data, "search_results", EmptyDict),
        !.clarification_questions = Get(data, "clarification_questions", <<>>),
        !.clarification_answers   = Get(data, "clarification_answers", <<>>),
        !.plan_points             = Get(data, "plan_points", <<>>),
        !.plan_version            = Get(data, "plan_version", 0),
        !.dossiers                = Get(data, "dossiers", <<>>),
        !.key_learnings           = Get(data, "key_learnings", <<>>),
        !.source_registry         = IntKeys(Get(data, "source_registry", EmptyDict)),
        !.language                = Get(data, "language", "en"),
        !.academic_mode           = Get(data, "academic_mode", FALSE)]

\* ContextState.from_dict: a new ContextState whose fields are read from the
\* keys it knows, each with its default; no other key of data is read
from_dict(data) ==
    [NewContextState("en", FALSE) EXCEPT
        !.session_id              = Get(data, "session_id", @),
        !.session_title           = Get(data, "session_title", ""),
        !.original_query          = Get(data, "original_query", ""),
        !.current_step            = Get(data, "current_step", 0),
        !.queries                 = Get(data, "queries", <<>>),
        !.urls                    = Get(data, "urls", <<>>),
        !.search_results          = Get(data, "search_results", EmptyDict),
        !.clarification_questions = Get(data, "clarification_questions", <<>>),
        !.clarification_answers   = Get(data, "clarification_answers", <<>>),
        !.plan_points             = Get(data, "plan_points", <<>>),
        !.plan_version            = Get(data, "plan_version", 0),
        !.dossiers                = Get(data, "dossiers", <<>>),
        !.key_learnings           = Get(data, "key_learnings", <<>>),
        !.source_registry         = IntKeys(Get(data, "source_registry", EmptyDict)),
        !.source_counter          = Get(data, "source_counter", 1),
        !.language                = Get(data, "language", "en"),
        !.academic_mode           = Get(data, "academic_mode", FALSE)]

\* ContextState.reset: everything but session_id, language and academic_mode
\* goes back to its initial value
reset(c) ==
    [NewContextState(c.language, c.academic_mode) EXCEPT !.session_id = c.session_id]

LifeReset ==
    /\ context' = reset(context)
    /\ last_call' = [ op   |-> "reset",
                      urls |-> <<>>,
                      pre  |-> context.source_registry,
                      ret  |-> EmptyDict ]
    /\ UNCHANGED <<calls, deepVars, routeVars, scraper>>

LifeRoundTrip ==
    /\ context' = from_dict(to_dict(context))
    /\ last_call' = [ op   |-> "from_dict",
                      urls |-> <<>>,
                      pre  |-> context.source_registry,
                      ret  |-> EmptyDict ]
    /\ UNCHANGED <<calls, deepVars, routeVars, scraper>>

NextLifecycle == RegAddSources \/ RegAddDossier \/ LifeReset \/ LifeRoundTrip

SpecLifecycle == InitRegistry /\ [][NextLifecycle]_vars

(***************************************************************************)
(* C20: across add_sources, add_dossier, reset and from_dict of a          *)
(* serialized state, source_counter never decreases, and it is the         *)
(* greatest key of source_registry plus one, 1 when the registry is empty. *)
(***************************************************************************)
CounterIsNextKey ==
    LET keys == DOMAIN context.source_registry
    IN  IF keys = {} THEN context.source_counter = 1
        ELSE /\ context.source_counter \in Nat
             /\ context.source_counter - 1 \in keys
             /\ \A k \in keys : k < context.source_counter

C20_CounterMonotone ==
    /\ []CounterIsNextKey
    /\ [][context'.source_counter >= context.source_counter]_vars

(***************************************************************************)
(* C21: when add_sources (called directly or by add_dossier) numbers URLs  *)
(* that were not registered before, every such URL gets a number greater   *)
(* than every number assigned by an earlier call, of two such URLs of the  *)
(* same call the one that comes first in the list gets the strictly        *)
(* smaller number, and every number assigned before the call still         *)
(* belongs to the same URL after it.                                       *)
(***************************************************************************)
C21_MonotoneNumbering ==
    last_call.op \in {"add_sources", "add_dossier"} =>
        LET pre      == last_call.pre
            reg      == context.source_registry
            given    == last_call.urls
            added    == (DOMAIN reg) \ (DOMAIN pre)
            First(u) == CHOOSE i \in 1..Len(given) :
                            /\ given[i] = u
                            /\ \A j \in 1..Len(given) : given[j] = u => i <= j
        IN  /\ \A k \in DOMAIN pre : k \in DOMAIN reg /\ reg[k] = pre[k]
            /\ \A k \in added : \A k0 \in DOMAIN pre : k0 < k
            /\ \A k1, k2 \in added :
                    First(reg[k1]) < First(reg[k2]) => k1 < k2

\* [C, A, B] on a registry {1: A}: C gets 2 and B gets 3
C21_Witness ==
    /\ last_call.op = "add_sources"
    /\ last_call.urls = <<"C", "A", "B">>
    /\ last_call.pre = <<"A">>
    /\ context.source_registry = <<"A", "C", "B">>
    /\ context.source_counter = 4

(***************************************************************************)
(* C22: when add_sources is called with the URL list of the add_sources    *)
(* call just before it, it returns the same mapping as that call and      *)
(* leaves source_registry and source_counter as they are; the same holds   *)
(* for the registration add_dossier makes with the list add_sources was    *)
(* just called with, as deep_research does for every dossier.              *)
(***************************************************************************)
C22_SecondCallIdempotent ==
    [][(/\ last_call.op = "add_sources"
        /\ last_call'.op \in {"add_sources", "add_dossier"}
        /\ last_call'.urls = last_call.urls)
       => /\ context'.source_registry = context.source_registry
          /\ context'.source_counter = context.source_counter
          /\ last_call'.op = "add_sources" => last_call'.ret = last_call.ret]_vars

\* [B, A, B] registered on {1: A} and then registered again: both calls
\* return {2: B, 1: A}
C22_Witness ==
    /\ last_call.op = "add_sources"
    /\ last_call.urls = <<"B", "A", "B">>
    /\ last_call.pre = <<"A", "B">>
    /\ last_call.ret = <<"A", "B">>
    /\ context.source_registry = <<"A", "B">>
    /\ context.source_counter = 3

(***************************************************************************)
(* SpecRewrite: the citation rewrite of deep_research applied to a dossier *)
(* text and key learnings of a point with one fetched URL                  *)
(***************************************************************************)
\* the longest text, in pieces
MaxPieces == 3

\* citation tokens, a letter and a digit
Pieces ==
    { <<"[", "1", "]">>, <<"[", "1", "0", "]">>, <<"[", "1", "1", "]">>,
        <<"[", "1", "2", "]">>, <<"[", "1", "3", "]">>, <<"a">>, <<"2">> }

RECURSIVE Concat(_)
Concat(parts) == IF parts = <<>> THEN <<>> ELSE Head(parts) \o Concat(Tail(parts))

DossierTexts == {Concat(parts) : parts \in SeqsUpTo(Pieces, MaxPieces)}

LearningTexts == {Concat(parts) : parts \in SeqsUpTo(Pieces, 1)}

\* the registry numbers the fetched URL may have
GlobalNums == {1, 5, 12}

InitRewrite ==
    /\ context = NewContextState("en", FALSE)
    /\ last_call = NoCall
    /\ calls = 0
    /\ pc = "idle"
    /\ plan_points = <<>>
    /\ session = NewSession("initial")
    /\ point_idx = 0
    /\ search_queries = <<>>
    /\ urls = <<>>
    /\ scraped = <<"A">>
    /\ dossier_response = NoDossier
    /\ dossier_text \in DossierTexts
    /\ key_learnings \in LearningTexts
    /\ final_document = ""
    /\ produced = <<>>
    /\ delivered = <<>>
    /\ RoutesIdle
    /\ scraper = NoScrape

\* the remap loop for dossier_urls = [A] with new_sources = {global_num: A}
Remap ==
    \E global_num \in GlobalNums :
        LET st == RemapLoop([text |-> dossier_text, learnings |-> key_learnings],
                            scraped, [k \in {global_num} |-> scraped[1]], 1)
        IN  /\ last_call = NoCall
            /\ dossier_text' = st.text
            /\ key_learnings' = st.learnings
            /\ last_call' = [ op         |-> "remap",
                              global_num |-> global_num,
                              text       |-> dossier_text,
                              learnings  |-> key_learnings ]
            /\ UNCHANGED <<context, calls, pc, plan_points, session, point_idx,
                           search_queries, urls, scraped, dossier_response,
                           final_document, produced, delivered, routeVars, scraper>>

NextRewrite == Remap

SpecRewrite == InitRewrite /\ [][NextRewrite]_vars

(***************************************************************************)
(* C23: the rewrite of local index 1 to global number 12 replaces only the *)
(* exact token [1]: in the dossier text and in the key learnings every     *)
(* [10], [11] and [13], and everything else that is not a [1] or [12]      *)
(* token, stands after the rewrite as it stood before, and no [1] that is  *)
(* not followed by a digit is left.                                        *)
(***************************************************************************)
\* the text without its citation tokens [1] and [12]
RECURSIVE WithoutTokens(_, _)
WithoutTokens(text, p) ==
    IF p > Len(text) THEN <<>>
    ELSE IF TokenAt(text, p) /\ TokenNum(text, p) \in {1, 12}
         THEN WithoutTokens(text, DigitRunEnd(text, p + 1) + 1)
         ELSE <<text[p]>> \o WithoutTokens(text, p + 1)

\* the numbers of the citation tokens of a text, in text order
RECURSIVE CitationSeq(_, _)
CitationSeq(text, p) ==
    IF p > Len(text) THEN <<>>
    ELSE IF TokenAt(text, p)
         THEN <<TokenNum(text, p)>> \o CitationSeq(text, DigitRunEnd(text, p + 1) + 1)
         ELSE CitationSeq(text, p + 1)

OnlyExactTokenRewritten(before, after) ==
    /\ WithoutTokens(after, 1) = WithoutTokens(before, 1)
    /\ SelectSeq(CitationSeq(after, 1), LAMBDA n : n \in {10, 11, 13})
         = SelectSeq(CitationSeq(before, 1), LAMBDA n : n \in {10, 11, 13})
    /\ \A p \in 1..Len(after) :
            (TokenAt(after, p) /\ TokenNum(after, p) = 1)
                => (p + 3 <= Len(after) /\ IsDigit(after[p + 3]))

C23_ExactTokenRewrite ==
    (last_call.op = "remap" /\ last_call.global_num = 12) =>
        /\ OnlyExactTokenRewritten(last_call.text, dossier_text)
        /\ OnlyExactTokenRewritten(last_call.learnings, key_learnings)

\* "[1][10][11]" with learnings "[13]" has become "[12][10][11]", "[13]"
C23_Witness ==
    /\ last_call.op = "remap"
    /\ last_call.global_num = 12
    /\ last_call.text = <<"[", "1", "]", "[", "1", "0", "]", "[", "1", "1",
        "]">>
    /\ dossier_text = <<"[", "1", "2", "]", "[", "1", "0", "]", "[", "1",
        "1", "]">>
    /\ last_call.learnings = <<"[", "1", "3", "]">>
    /\ key_learnings = <<"[", "1", "3", "]">>

(***************************************************************************)
(* SpecPersist: a ContextState is saved with to_dict, loaded with          *)
(* from_dict, as saved or with a field ContextState does not know, and     *)
(* saved again                                                             *)
(***************************************************************************)
\* what precedes the save: an overview, registered sources, maybe a dossier
SampleStates ==
    {LET c1 == get_overview(NewContextState(language, academic_mode), "q",
                            response).context
         c2 == add_sources(c1, us).context
     IN  IF fetched = <<>> THEN c2
         ELSE add_dossier(c2, "P", Cite(1), fetched, <<"x">>) :
        language \in {"en", "de"}, academic_mode \in BOOLEAN,
        response \in OverviewResponses, us \in UrlLists,
        fetched \in {<<>>, <<"A">>, <<"C", "B">>}}

\* the fields a stored dict may carry beside those of to_dict
UnknownFields == {EmptyDict, [notes |-> "n"]}

\* {**data, **more}
Merge(data, more) ==
    [k \in (DOMAIN data) \cup (DOMAIN more) |->
        IF k \in DOMAIN more THEN more[k] ELSE data[k]]

InitPersist ==
    /\ context \in SampleStates
    /\ last_call = NoCall
    /\ calls = 0
    /\ DeepIdle

PersistSave ==
    /\ last_call = NoCall
    /\ last_call' = [ op    |-> "to_dict",
                      state |-> context,
                      data  |-> to_dict(context) ]
    /\ UNCHANGED <<context, calls, deepVars, routeVars, scraper>>

PersistLoad ==
    \E more \in UnknownFields :
        /\ last_call.op = "to_dict"
        /\ context' = from_dict(Merge(last_call.data, more))
        /\ last_call' = [ op    |-> "from_dict",
                          state |-> last_call.state,
                          data  |-> Merge(last_call.data, more) ]
        /\ UNCHANGED <<calls, deepVars, routeVars, scraper>>

PersistSaveAgain ==
    /\ last_call.op = "from_dict"
    /\ last_call' = [ op    |-> "to_dict again",
                      state |-> last_call.state,
                      data  |-> last_call.data,
                      saved |-> to_dict(context) ]
    /\ UNCHANGED <<context, calls, deepVars, routeVars, scraper>>

NextPersist == PersistSave \/ PersistLoad \/ PersistSaveAgain

SpecPersist == InitPersist /\ [][NextPersist]_vars

(***************************************************************************)
(* C24: to_dict gives every field of the state, source_registry with its   *)
(* integer keys written as strings; from_dict of that dict gives a state   *)
(* equal to the saved one in every field, the keys being integers again;   *)
(* and saving the loaded state gives the dict that was loaded.             *)
(***************************************************************************)
StateFields == DOMAIN NewContextState("en", FALSE)

C24_RoundTrip ==
    /\ last_call.op = "to_dict" =>
        LET s == last_call.state
            d == last_call.data
        IN  /\ DOMAIN d = StateFields
            /\ \A f \in StateFields \ {"source_registry"} : d[f] = s[f]
            /\ DOMAIN d.source_registry =
                    {ToString(k) : k \in DOMAIN s.source_registry}
            /\ \A k \in DOMAIN s.source_registry :
                    d.source_registry[ToString(k)] = s.source_registry[k]
    /\ (last_call.op \in {"from_dict", "to_dict again"}
            /\ DOMAIN last_call.data = StateFields) =>
        /\ \A f \in StateFields : context[f] = last_call.state[f]
        /\ DOMAIN context.source_registry \subseteq 0..MaxCounter
    /\ (last_call.op = "to_dict again" /\ DOMAIN last_call.data = StateFields) =>
        last_call.saved = last_call.data

\* a state with a dossier and three sources has been saved, loaded and saved
C24_Witness ==
    /\ last_call.op = "to_dict again"
    /\ DOMAIN last_call.data = StateFields
    /\ context.source_registry = <<"B", "A", "C">>
    /\ context.source_counter = 4
    /\ Len(context.dossiers) = 1
    /\ context.queries # <<>>
    /\ DOMAIN last_call.saved.source_registry = {"1", "2", "3"}

(***************************************************************************)
(* C25: a stored dict with a field ContextState does not know keeps that   *)
(* field, with its value, when it is loaded with from_dict and saved with  *)
(* to_dict.                                                                *)
(***************************************************************************)
C25_UnknownFieldsKept ==
    last_call.op = "to_dict again" =>
        \A f \in (DOMAIN last_call.data) \ StateFields :
            /\ f \in DOMAIN last_call.saved
            /\ last_call.saved[f] = last_call.data[f]

(***************************************************************************)
(* SpecScrape: core.scraper, one fetch at a time: CamoufoxScraper's        *)
(* scrape_async with its default retry count, and scrape_urls_batch as     *)
(* clarify (retries_per_url=1) and deep_research (the default, 2) call it. *)
(* One step is one pass of a retry loop: the navigation, what the except   *)
(* clauses do with its failure, and the backoff sleep before the next.     *)
(***************************************************************************)
MAX_RETRIES == 3

\* INITIAL_BACKOFF and MAX_BACKOFF in milliseconds
INITIAL_BACKOFF == 1000

MAX_BACKOFF == 30000

BACKOFF_MULTIPLIER == 2

\* random.random() in hundredths: the ends of [0, 1)
Randoms == {0, 99}

RECURSIVE Power(_, _)
Power(b, n) == IF n = 0 THEN 1 ELSE b * Power(b, n - 1)

Min(a, b) == IF a < b THEN a ELSE b

Max(a, b) == IF a < b THEN b ELSE a

\* calculate_backoff(attempt) in milliseconds, random.random() being r / 100
calculate_backoff(attempt, r) ==
    LET delay  == Min(INITIAL_BACKOFF * Power(BACKOFF_MULTIPLIER, attempt),
                      MAX_BACKOFF)
        jitter == (delay * 25 * (2 * r - 100)) \div 10000
    IN  Max(100, delay + jitter)

\* sub in text
Contains(text, sub) ==
    \E p \in 1..(Len(text) - Len(sub) + 1) : StartsWith(text, p, sub)

\* the texts of the exceptions page.goto raises
ErrorTexts ==
    { <<"n", "e", "t", ":", ":", "E", "R", "R", "_", "N", "A", "M", "E", "_",
        "N", "O", "T", "_", "R", "E", "S", "O", "L", "V", "E", "D">>,
      <<"E", "R", "R", "_", "N", "A", "M", "E", "_", "N", "O", "T", "_", "R",
          "E", "S", "O", "L", "V", "E", "D">>,
      <<"n", "e", "t", ":", ":", "E", "R", "R", "_", "F", "A", "I", "L", "E",
          "D">> }

\* how one navigation ends: the page arrives with text, with a content type
\* that is not allowed, with 50 characters or less, or page.goto raises
\* asyncio.TimeoutError or another exception
Navigations ==
    {[kind |-> k] : k \in {"ok", "content-type", "empty", "timeout"}}
        \cup {[kind |-> "exception", text |-> t] : t \in ErrorTexts}

NoError == [kind |-> "none"]

\* the URLs fetched: two the scraper's validator accepts, one it rejects
ScrapeURLs ==
    { <<"h", "t", "t", "p", "s", ":", "/", "/", "e", "x", "a", "m", "p", "l",
        "e", ".", "c", "o", "m", "/", "a">>,
      <<"h", "t", "t", "p", "s", ":", "/", "/", "e", "x", "a", "m", "p", "l",
          "e", ".", "c", "o", "m", "/", "b">>,
      <<"h", "t", "t", "p", ":", "/", "/", "1", "0", ".", "0", ".", "0", ".",
          "1", "/">> }

MaxBatch == 2

\* the retries_per_url of research.py's two calls
BatchRetries == {1, 2}

\* a fetch that has come to page.goto for safe_urls[1], attempt 0
Started(op, safe_urls, retries) ==
    [ pc |-> "goto", op |-> op, urls |-> safe_urls, i |-> 1,
      retries |-> retries, attempt |-> 0, last_error |-> NoError,
      log |-> <<>>, results |-> <<>> ]

\* a fetch that has returned without a navigation
ReturnedAtOnce(op, error) ==
    [ pc |-> "returned", op |-> op, urls |-> <<>>, i |-> 1,
      retries |-> 0, attempt |-> 0, last_error |-> error,
      log |-> <<>>, results |-> <<>> ]

\* the entries of the log: a page.goto with the way it ended, a backoff sleep
Goto(s, nav) ==
    [kind |-> "goto", i |-> s.i, attempt |-> s.attempt, nav |-> nav, delay |-> 0]

Backoff(s, r) ==
    [ kind |-> "backoff", i |-> s.i, attempt |-> s.attempt, nav |-> NoError,
      delay |-> calculate_backoff(s.attempt, r) ]

\* scrape_async: the return statements
Return(s, error) == [s EXCEPT !.pc = "returned", !.last_error = error]

\* scrape_urls_batch: break, or the end of the retry loop: the next URL of
\* safe_urls, and after the last one the return of results
NextUrl(s) ==
    IF s.i < Len(s.urls)
    THEN [s EXCEPT !.i = s.i + 1, !.attempt = 0, !.last_error = NoError]
    ELSE [s EXCEPT !.pc = "returned"]

\* the end of an except clause: a backoff sleep and the next attempt when
\* attempt < retries, and otherwise ended, the fetch after the loop's end
RetryOrEnd(s, r, ended) ==
    IF s.attempt < s.retries
    THEN [s EXCEPT !.log = Append(s.log, Backoff(s, r)),
                   !.attempt = s.attempt + 1]
    ELSE ended

\* one pass of scrape_async's retry loop, the navigation ending as nav
scrape_async_attempt(s0, nav, r) ==
    LET s      == [s0 EXCEPT !.log = Append(s0.log, Goto(s0, nav))]
        failed == [s EXCEPT !.last_error = nav]
    IN  CASE nav.kind \in {"ok", "empty"} ->
                [Return(s, NoError) EXCEPT !.results = <<s.urls[s.i]>>]
          [] nav.kind = "content-type" -> Return(s, nav)
          [] nav.kind = "timeout" -> RetryOrEnd(failed, r, Return(s, nav))
          [] nav.kind = "exception" ->
                IF Contains(nav.text, <<"n", "e", "t", ":", ":", "E", "R", "R",
                    "_", "N", "A", "M", "E", "_", "N", "O", "T", "_", "R", "E",
                    "S", "O", "L", "V", "E", "D">>)
                THEN Return(s, nav)
                ELSE RetryOrEnd(failed, r, Return(s, nav))

\* one pass of scrape_urls_batch's retry loop, the navigation ending as nav
scrape_urls_batch_attempt(s0, nav, r) ==
    LET s      == [s0 EXCEPT !.log = Append(s0.log, Goto(s0, nav))]
        failed == [s EXCEPT !.last_error = nav]
    IN  CASE nav.kind = "ok" ->
                NextUrl([s EXCEPT !.results = Append(s.results, s.urls[s.i])])
          [] nav.kind = "content-type" -> NextUrl(s)
          [] nav.kind \in {"empty", "timeout"} ->
                RetryOrEnd(failed, r, NextUrl(failed))
          [] nav.kind = "exception" ->
                IF Contains(nav.text, <<"E", "R", "R", "_", "N", "A", "M", "E",
                    "_", "N", "O", "T", "_", "R", "E", "S", "O", "L", "V", "E",
                    "D">>)
                THEN NextUrl(failed)
                ELSE RetryOrEnd(failed, r, NextUrl(failed))

InitScrape ==
    /\ context = NewContextState("en", FALSE)
    /\ last_call = NoCall
    /\ calls = 0
    /\ DeepIdle

\* scrape_async(url) is called: the statements before the retry loop
ScrapeAsync ==
    \E url \in ScrapeURLs, installed \in BOOLEAN :
        /\ scraper.pc = "idle"
        /\ scraper' =
              IF ~scraper_validate_url(url)
              THEN ReturnedAtOnce("scrape_async", [kind |-> "blocked"])
              ELSE IF ~installed
              THEN ReturnedAtOnce("scrape_async", [kind |-> "not installed"])
              ELSE Started("scrape_async", <<url>>, MAX_RETRIES)
        /\ last_call' = [op |-> "scrape_async", urls |-> <<url>>]
        /\ UNCHANGED <<context, calls, deepVars, routeVars>>

\* scrape_urls_batch(url_list, retries_per_url) is called: the statements
\* before the loop over safe_urls
ScrapeUrlsBatch ==
    \E url_list \in SeqsUpTo(ScrapeURLs, MaxBatch),
       retries_per_url \in BatchRetries, started \in BOOLEAN :
        /\ scraper.pc = "idle"
        /\ scraper' =
              IF scrape_urls_batch(url_list) = <<>> \/ ~started
              THEN ReturnedAtOnce("scrape_urls_batch", NoError)
              ELSE Started("scrape_urls_batch", scrape_urls_batch(url_list),
                           retries_per_url)
        /\ last_call' = [op |-> "scrape_urls_batch", urls |-> url_list]
        /\ UNCHANGED <<context, calls, deepVars, routeVars>>

\* scrape_async: page.goto and what follows it, up to the next page.goto
ScrapeAsyncAttempt ==
    \E nav \in Navigations, r \in Randoms :
        /\ scraper.pc = "goto"
        /\ scraper.op = "scrape_async"
        /\ scraper' = scrape_async_attempt(scraper, nav, r)
        /\ UNCHANGED <<context, last_call, calls, deepVars, routeVars>>

\* scrape_urls_batch: page.goto and what follows it, up to the next page.goto
ScrapeUrlsBatchAttempt ==
    \E nav \in Navigations, r \in Randoms :
        /\ scraper.pc = "goto"
        /\ scraper.op = "scrape_urls_batch"
        /\ scraper' = scrape_urls_batch_attempt(scraper, nav, r)
        /\ UNCHANGED <<context, last_call, calls, deepVars, routeVars>>

NextScrape ==
    \/ ScrapeAsync
    \/ ScrapeUrlsBatch
    \/ ScrapeAsyncAttempt
    \/ ScrapeUrlsBatchAttempt

SpecScrape == InitScrape /\ [][NextScrape]_vars

\* the navigations made for the URL at position i of the fetch, in order
NavigationsOf(i) ==
    SelectSeq(scraper.log, LAMBDA e : e.kind = "goto" /\ e.i = i)

\* the backoff sleeps taken for the URL at position i
BackoffsOf(i) ==
    SelectSeq(scraper.log, LAMBDA e : e.kind = "backoff" /\ e.i = i)

FetchPositions == IF scraper.pc = "idle" THEN {} ELSE 1..Len(scraper.urls)

AtMostMaxRetriesAttempts ==
    \A i \in FetchPositions : Len(NavigationsOf(i)) <= MAX_RETRIES

\* two timeouts and then a page with text, for the URL at position i
TwoTimeoutsThenSuccess(i) ==
    /\ Len(NavigationsOf(i)) >= 3
    /\ NavigationsOf(i)[1].nav.kind = "timeout"
    /\ NavigationsOf(i)[2].nav.kind = "timeout"
    /\ NavigationsOf(i)[3].nav.kind = "ok"

ThirdAttemptReturnsContent ==
    \A i \in FetchPositions :
        TwoTimeoutsThenSuccess(i) =>
            /\ Len(NavigationsOf(i)) = 3
            /\ \E k \in 1..Len(scraper.results) :
                  scraper.results[k] = scraper.urls[i]
            /\ scraper.op = "scrape_async" =>
                  scraper.pc = "returned" /\ scraper.last_error = NoError

(***************************************************************************)
(* C26: whatever way the navigations fail, no URL of a fetch is navigated  *)
(* to more than MAX_RETRIES = 3 times, in scrape_async with its default    *)
(* retry count and for each URL of scrape_urls_batch; and a URL whose      *)
(* navigations end timeout, timeout, success has had exactly three, its    *)
(* content is in the result and scrape_async has returned no error.        *)
(***************************************************************************)
C26_AtMostThreeAttempts ==
    AtMostMaxRetriesAttempts /\ ThirdAttemptReturnsContent

\* the case of the second half: timeout, timeout, success for some URL
C26_TwoTimeoutsSeen ==
    \E i \in FetchPositions : TwoTimeoutsThenSuccess(i)

\* a DNS-resolution failure as the specification detects it
IsDnsFailure(e) ==
    /\ e.kind = "goto"
    /\ e.nav.kind = "exception"
    /\ Contains(e.nav.text, <<"E", "R", "R", "_", "N", "A", "M", "E", "_",
        "N", "O", "T", "_", "R", "E", "S", "O", "L", "V", "E", "D">>)

\* after a DNS failure for the URL at position i the log has nothing more
\* for i, and the fetch stands at another URL or has returned
DnsFailureEndsUrl(ops) ==
    \A k \in 1..(IF scraper.pc = "idle" THEN 0 ELSE Len(scraper.log)) :
        (scraper.op \in ops /\ IsDnsFailure(scraper.log[k])) =>
            /\ \A j \in (k + 1)..Len(scraper.log) :
                  scraper.log[j].i # scraper.log[k].i
            /\ \/ scraper.pc = "returned"
               \/ scraper.i > scraper.log[k].i

(***************************************************************************)
(* C27: a navigation that fails with ERR_NAME_NOT_RESOLVED in the error    *)
(* text is the last thing the fetch does for that URL: no further          *)
(* navigation and no backoff sleep follow for it, in scrape_async and in   *)
(* scrape_urls_batch, and the batch goes on to the next URL.               *)
(***************************************************************************)
C27_NoRetryOnDnsFailure ==
    DnsFailureEndsUrl({"scrape_async", "scrape_urls_batch"})

\* the part of C27 that is about scrape_urls_batch
BatchDnsFailureEndsUrl == DnsFailureEndsUrl({"scrape_urls_batch"})

\* a batch that went on to its second URL after a DNS failure of the first
BatchWentOnAfterDnsFailure ==
    /\ scraper.pc = "goto"
    /\ scraper.op = "scrape_urls_batch"
    /\ scraper.i = 2
    /\ IsDnsFailure(scraper.log[Len(scraper.log)])

(***************************************************************************)
(* SpecBatch: one scrape_urls_batch(urls, timeout=30) of deep_research,    *)
(* from the call to the return, on lists around MAX_URLS_PER_BATCH long    *)
(***************************************************************************)
MaxExtra == 3

\* the URL at position k of a list: one the scraper's validator accepts, or
\* one it rejects
PageUrl(k) == <<"h", "t", "t", "p", "s", ":", "/", "/", "e", "x", "a", "m",
    "p", "l", "e", ".", "c", "o", "m", "/">> \o Digits(k)

PrivateUrl(k) == <<"h", "t", "t", "p", ":", "/", "/", "1", "0", ".", "0",
    ".", "0", ".", "1", "/">> \o Digits(k)

\* the positions where a list may have a URL the validator rejects, and those
\* whose page may come with a content type that is not allowed
BlockedSamples == {1, 50, MAX_URLS_PER_BATCH, MAX_URLS_PER_BATCH + 1}

SkippedSamples == {2, MAX_URLS_PER_BATCH, MAX_URLS_PER_BATCH + 2}

LongUrlLists ==
    { [k \in 1..n |-> IF k \in blocked THEN PrivateUrl(k) ELSE PageUrl(k)] :
        n \in (MAX_URLS_PER_BATCH - 1)..(MAX_URLS_PER_BATCH + MaxExtra),
        blocked \in SUBSET BlockedSamples }

\* the position of url in the list: the URLs of a list are distinct
PositionIn(url_list, url) == CHOOSE k \in 1..Len(url_list) : url_list[k] = url

\* the loop over safe_urls run to its end, the page of the URL at a position
\* of skipped coming with a content type that is not allowed
RECURSIVE RunBatch(_, _, _)
RunBatch(s, url_list, skipped) ==
    IF s.pc = "returned" THEN s
    ELSE LET nav == IF PositionIn(url_list, s.urls[s.i]) \in skipped
                    THEN [kind |-> "content-type"]
                    ELSE [kind |-> "ok"]
         IN  RunBatch(scrape_urls_batch_attempt(s, nav, 0), url_list, skipped)

InitBatch ==
    /\ context = NewContextState("en", FALSE)
    /\ last_call = NoCall
    /\ calls = 0
    /\ pc = "idle"
    /\ plan_points = <<>>
    /\ session = NewSession("initial")
    /\ point_idx = 0
    /\ search_queries = <<>>
    /\ urls \in LongUrlLists
    /\ scraped = <<>>
    /\ dossier_response = NoDossier
    /\ dossier_text = <<>>
    /\ key_learnings = <<>>
    /\ final_document = ""
    /\ produced = <<>>
    /\ delivered = <<>>
    /\ RoutesIdle
    /\ scraper = NoScrape

\* scraped = await scrape_urls_batch(urls, timeout=30)
BatchFetched(safe_urls, skipped) ==
    LET s == IF safe_urls = <<>>
             THEN ReturnedAtOnce("scrape_urls_batch", NoError)
             ELSE RunBatch(Started("scrape_urls_batch", safe_urls, 2), urls,
                           skipped)
    IN  /\ scraper' = s
        /\ scraped' = s.results
        /\ last_call' = [op |-> "scrape_urls_batch", urls |-> urls]

BatchFetch ==
    \E skipped \in SUBSET SkippedSamples :
        /\ scraper.pc = "idle"
        /\ BatchFetched(scrape_urls_batch(urls), skipped)
        /\ UNCHANGED <<context, calls, pc, plan_points, session, point_idx,
                       search_queries, urls, dossier_response, dossier_text,
                       key_learnings, final_document, produced, delivered,
                       routeVars>>

NextBatch == BatchFetch

SpecBatch == InitBatch /\ [][NextBatch]_vars

\* the URLs the fetch has navigated to, in the order of the navigations
Navigated ==
    IF scraper.pc = "idle" THEN <<>>
    ELSE LET gotos == SelectSeq(scraper.log, LAMBDA e : e.kind = "goto")
         IN  [k \in 1..Len(gotos) |-> scraper.urls[gotos[k].i]]

\* the URLs of list are of the first MAX_URLS_PER_BATCH of urls, and stand in
\* the order they have there
FromFirstHundredInOrder(list) ==
    /\ \A k \in 1..Len(list) :
          /\ \E p \in 1..Min(Len(urls), MAX_URLS_PER_BATCH) : urls[p] = list[k]
          /\ \A p \in (MAX_URLS_PER_BATCH + 1)..Len(urls) : urls[p] # list[k]
    /\ \A j, k \in 1..Len(list) :
          j < k => PositionIn(urls, list[j]) <= PositionIn(urls, list[k])

(***************************************************************************)
(* C28: a batch fetch navigates only to URLs among the first 100 of its    *)
(* input, in input order, and only those are keys of its result: no URL    *)
(* at position 101 or later is navigated to or returned, also when the     *)
(* validator drops some of the first 100.                                  *)
(***************************************************************************)
C28_OnlyFirstHundred ==
    last_call.op = "scrape_urls_batch" =>
        FromFirstHundredInOrder(Navigated) /\ FromFirstHundredInOrder(scraped)

\* a list of more than 100 URLs, one of its first 100 dropped by validation,
\* has been fetched, and pages have come back
C28_Witness ==
    /\ last_call.op = "scrape_urls_batch"
    /\ Len(urls) > MAX_URLS_PER_BATCH
    /\ Len(Navigated) = MAX_URLS_PER_BATCH - 1
    /\ scraped # <<>>

(***************************************************************************)
(* SpecLearnings: the operations of ContextState that write key_learnings, *)
(* called in any order on one ContextState                                 *)
(***************************************************************************)
MaxLearnings == 3

\* learnings as the dossier parser and a caller may hand them over: a text,
\* the same text with blanks around it, another text, a blank and an empty one
LearningSamples == { <<"x">>, <<" ", "x", " ">>, <<"y">>, <<" ">>, <<>> }

\* ContextState.update_key_learnings for a list argument
RECURSIVE update_key_learnings_list(_, _)
update_key_learnings_list(c, learnings) ==
    IF learnings = <<>> THEN c
    ELSE update_key_learnings_list(update_key_learnings(c, Head(learnings)),
                                   Tail(learnings))

\* what update_key_learnings appends for a list: the stripped entries that
\* are not blank
RECURSIVE Stripped(_)
Stripped(learnings) ==
    IF learnings = <<>> THEN <<>>
    ELSE (IF Strip(Head(learnings)) # <<>> THEN <<Strip(Head(learnings))>>
          ELSE <<>>) \o Stripped(Tail(learnings))

\* context.update_key_learnings(learnings), learnings a str
LearnStr ==
    \E learnings \in LearningSamples :
        /\ Len(context.key_learnings) < MaxLearnings
        /\ context' = update_key_learnings(context, learnings)
        /\ last_call' = [ op   |-> "update_key_learnings",
                          urls |-> <<learnings>>,
                          pre  |-> context.source_registry,
                          ret  |-> EmptyDict ]
        /\ UNCHANGED <<calls, deepVars, routeVars, scraper>>

\* context.update_key_learnings(learnings), learnings a list
LearnList ==
    \E learnings \in SeqsUpTo(LearningSamples, 2) :
        /\ Len(context.key_learnings) + Len(learnings) <= MaxLearnings
        /\ context' = update_key_learnings_list(context, learnings)
        /\ last_call' = [ op   |-> "update_key_learnings",
                          urls |-> learnings,
                          pre  |-> context.source_registry,
                          ret  |-> EmptyDict ]
        /\ UNCHANGED <<calls, deepVars, routeVars, scraper>>

\* context.add_dossier(...) with the learnings of the dossier response
LearnDossier ==
    \E learnings \in LearningSamples :
        /\ Len(context.dossiers) < MaxDossiers
        /\ Len(context.key_learnings) < MaxLearnings
        /\ context.source_counter < MaxCounter
        /\ context' = add_dossier(context, "P", Cite(1), <<"A">>, learnings)
        /\ last_call' = [ op   |-> "add_dossier",
                          urls |-> <<learnings>>,
                          pre  |-> context.source_registry,
                          ret  |-> EmptyDict ]
        /\ UNCHANGED <<calls, deepVars, routeVars, scraper>>

NextLearnings ==
    LearnStr \/ LearnList \/ LearnDossier \/ LifeReset \/ LifeRoundTrip

SpecLearnings == InitRegistry /\ [][NextLearnings]_vars

\* list begins with the entries of prefix, in their order
IsPrefix(prefix, list) ==
    /\ Len(prefix) <= Len(list)
    /\ SubSeq(list, 1, Len(prefix)) = prefix

\* the step leaves the stored learnings where they were, and an operation
\* that was handed learnings has appended each of them that is not blank,
\* whether the list had an equal entry or not
LearningsAppended ==
    /\ IsPrefix(context.key_learnings, context'.key_learnings)
    /\ last_call'.op \in {"update_key_learnings", "add_dossier"} =>
          context'.key_learnings =
              context.key_learnings \o Stripped(last_call'.urls)

(***************************************************************************)
(* C29: every operation on the ContextState of a session leaves the        *)
(* entries key_learnings had where they were, unchanged and in order, and  *)
(* only appends at the end; a learning equal to a stored one is appended   *)
(* all the same.                                                           *)
(***************************************************************************)
C29_AppendOnly == [][LearningsAppended]_vars

\* the operations that are handed learnings append them, equal ones too
LearningsAppendedByUpdates ==
    [][last_call'.op \in {"update_key_learnings", "add_dossier"}
          => LearningsAppended]_vars

(***************************************************************************)
(* SpecFormat: ContextState.format_for_llm called on one ContextState      *)
(* whose texts are sequences of characters                                 *)
(***************************************************************************)
MaxStored == 7

\* s[-n:]
LastAll(s, n) == s

Last(s, n) ==
    IF n = 0 \/ Len(s) <= n THEN s ELSE SubSeq(s, Len(s) - n + 1, Len(s))

\* sep.join(lines)
RECURSIVE Join(_, _)
Join(lines, sep) ==
    IF lines = <<>> THEN <<>>
    ELSE IF Len(lines) = 1 THEN lines[1]
    ELSE lines[1] \o <<sep>> \o Join(Tail(lines), sep)

\* for i, item in enumerate(items, 1): lines.append(f"{i}. {item}")
Numbered(items) ==
    [i \in 1..Len(items) |-> Digits(i) \o <<".", " ">> \o items[i]]

\* for i, point in enumerate(items, 1): lines.append(f"({i}) {point}")
Parenthesized(items) ==
    [i \in 1..Len(items) |-> <<"(">> \o Digits(i) \o <<")", " ">> \o items[i]]

\* for learning in items: lines.append(f"- {learning}")
Dashed(items) == [i \in 1..Len(items) |-> <<"-", " ">> \o items[i]]

\* a section of format_for_llm: nothing for an empty collection
Section(collection, header, body) ==
    IF collection = <<>> THEN <<>> ELSE <<header>> \o body \o << <<>> >>

\* ContextState.format_for_llm
format_for_llm(c) ==
    Join( << <<"=", "=", "=", " ", "Y", "O", "U", "R", " ", "T", "A", "S",
        "K", " ", "=", "=", "=">>, c.original_query, <<>> >>
          \o Section(c.queries, <<"=", "=", "=", " ", "S", "E", "A", "R",
              "C", "H", " ", "Q", "U", "E", "R", "I", "E", "S", " ", "=",
              "=", "=">>, Numbered(c.queries))
          \o Section(c.urls, <<"=", "=", "=", " ", "S", "E", "L", "E", "C",
              "T", "E", "D", " ", "S", "O", "U", "R", "C", "E", "S", " ",
              "=", "=", "=">>, Numbered(c.urls))
          \o Section(c.clarification_questions, <<"=", "=", "=", " ", "F",
              "O", "L", "L", "O", "W", "-", "U", "P", " ", "Q", "U", "E",
              "S", "T", "I", "O", "N", "S", " ", "=", "=", "=">>,
                     Numbered(c.clarification_questions))
          \o Section(c.clarification_answers, <<"=", "=", "=", " ", "U", "S",
              "E", "R", " ", "A", "N", "S", "W", "E", "R", "S", " ", "=",
              "=", "=">>,
                     Numbered(c.clarification_answers))
          \o Section(c.plan_points,
                     <<"=", "=", "=", " ", "R", "E", "S", "E", "A", "R", "C",
                         "H", " ", "P", "L", "A", "N", " ", "(",
                         "v">> \o Digits(c.plan_version)
                         \o <<")", " ", "=", "=", "=">>,
                     Parenthesized(c.plan_points))
          \o Section(c.key_learnings, <<"=", "=", "=", " ", "K", "E", "Y",
              " ", "L", "E", "A", "R", "N", "I", "N", "G", "S", " ", "=",
              "=", "=">>,
                     Dashed(Last(c.key_learnings, 5))),
          "\n" )

\* the texts a collection may hold
ItemTexts == { <<"a">>, <<"b", " ", "c">> }

ItemLists == {<<>>} \cup {<<t>> : t \in ItemTexts} \cup { << <<"a">>, <<"b",
    " ", "c">> >> }

ShortLists == { <<>>, << <<"a">> >> }

\* k learnings, each one its own number
Learnings(k) == [i \in 1..k |-> <<"L">> \o Digits(i)]

FormatStates ==
    { [NewContextState("en", FALSE) EXCEPT
          !.original_query = q, !.queries = qs, !.urls = us,
          !.clarification_questions = cq, !.clarification_answers = ca,
          !.plan_points = pp, !.plan_version = pv,
          !.key_learnings = Learnings(k)] :
        q \in ItemTexts \cup {<<>>}, qs \in ItemLists, us \in ShortLists,
        cq \in ShortLists, ca \in ShortLists, pp \in ShortLists,
        pv \in 0..2, k \in 0..MaxStored }

InitFormat ==
    /\ context \in FormatStates
    /\ last_call = NoCall
    /\ calls = 0
    /\ DeepIdle

\* context.format_for_llm()
FormatForLlm ==
    /\ last_call = NoCall
    /\ last_call' = [op |-> "format_for_llm", ret |-> format_for_llm(context)]
    /\ UNCHANGED <<context, calls, deepVars, routeVars, scraper>>

NextFormat == FormatForLlm

SpecFormat == InitFormat /\ [][NextFormat]_vars

\* the lines of the returned text but the second, which is the query as the
\* user wrote it
EmittedLines ==
    LET lines == Split(last_call.ret, "\n")
    IN  [i \in 1..(Len(lines) - 1) |-> IF i = 1 THEN lines[1] ELSE lines[i + 1]]

\* the section headers of the returned text, in the order they stand there
EmittedHeaders ==
    SelectSeq(EmittedLines, LAMBDA line : StartsWith(line, 1, <<"=", "=",
        "=", " ">>))

\* header when the collection is not empty
HeaderIf(collection, header) ==
    IF collection = <<>> THEN <<>> ELSE <<header>>

ExpectedHeaders ==
    << <<"=", "=", "=", " ", "Y", "O", "U", "R", " ", "T", "A", "S", "K",
        " ", "=", "=", "=">> >>
        \o HeaderIf(context.queries, <<"=", "=", "=", " ", "S", "E", "A",
            "R", "C", "H", " ", "Q", "U", "E", "R", "I", "E", "S", " ", "=",
            "=", "=">>)
        \o HeaderIf(context.urls, <<"=", "=", "=", " ", "S", "E", "L", "E",
            "C", "T", "E", "D", " ", "S", "O", "U", "R", "C", "E", "S", " ",
            "=", "=", "=">>)
        \o HeaderIf(context.clarification_questions,
                    <<"=", "=", "=", " ", "F", "O", "L", "L", "O", "W", "-",
                        "U", "P", " ", "Q", "U", "E", "S", "T", "I", "O",
                        "N", "S", " ", "=", "=", "=">>)
        \o HeaderIf(context.clarification_answers, <<"=", "=", "=", " ", "U",
            "S", "E", "R", " ", "A", "N", "S", "W", "E", "R", "S", " ", "=",
            "=", "=">>)
        \o HeaderIf(context.plan_points,
                    <<"=", "=", "=", " ", "R", "E", "S", "E", "A", "R", "C",
                        "H", " ", "P", "L", "A", "N", " ", "(",
                        "v">> \o Digits(context.plan_version)
                        \o <<")", " ", "=", "=", "=">>)
        \o HeaderIf(context.key_learnings, <<"=", "=", "=", " ", "K", "E",
            "Y", " ", "L", "E", "A", "R", "N", "I", "N", "G", "S", " ", "=",
            "=", "=">>)

\* the learnings the returned text lists: its lines that begin with "- "
EmittedLearnings ==
    LET dashed == SelectSeq(EmittedLines,
                            LAMBDA line : StartsWith(line, 1, <<"-", " ">>))
    IN  [i \in 1..Len(dashed) |-> SubSeq(dashed[i], 3, Len(dashed[i]))]

\* the last five of the stored learnings, fewer when fewer are stored
LastFiveLearnings ==
    LET n == Len(context.key_learnings)
    IN  [i \in 1..Min(n, 5) |-> context.key_learnings[n - Min(n, 5) + i]]

(***************************************************************************)
(* C30: the text format_for_llm returns has the section headers YOUR TASK, *)
(* SEARCH QUERIES, SELECTED SOURCES, FOLLOW-UP QUESTIONS, USER ANSWERS,    *)
(* RESEARCH PLAN (vN), KEY LEARNINGS in this order, without the header of  *)
(* every section whose collection is empty, and under KEY LEARNINGS it     *)
(* lists the last 5 learnings and no other.                                *)
(***************************************************************************)
C30_SectionsInOrder ==
    last_call.op = "format_for_llm" =>
        /\ EmittedHeaders = ExpectedHeaders
        /\ EmittedLearnings = LastFiveLearnings

\* a state with more than 5 learnings and some empty collection was formatted
C30_Witness ==
    /\ last_call.op = "format_for_llm"
    /\ Len(context.key_learnings) > 5
    /\ context.urls = <<>>
    /\ context.plan_points # <<>>

(***************************************************************************)
(* SpecPlan: the stage handlers called, in any order, on one pipeline, the *)
(* call of create_plan recorded with the points parse_plan_points gave     *)
(***************************************************************************)
PlanCreatePlan ==
    \E user_query \in UserQueries, answers \in AnswerLists,
       questions \in QuestionLists, response \in PlanResponses :
        LET r == create_plan(context, user_query, answers, questions, response)
        IN  /\ calls < MaxCalls
            /\ calls' = calls + 1
            /\ context' = r.context
            /\ last_call' = [ op         |-> "create_plan",
                              args_empty |-> user_query = "",
                              pre        |-> context,
                              error      |-> r.error,
                              llm_failed |-> r.llm_failed,
                              io         |-> r.io,
                              points     |-> IF response.ok THEN response.points
                                             ELSE <<>> ]
            /\ UNCHANGED <<deepVars, routeVars, scraper>>

NextPlan == StageOverview \/ StageSearchAndPick \/ StageClarify \/ PlanCreatePlan

SpecPlan == InitStages /\ [][NextPlan]_vars

\* what a step does to the plan: create_plan replaces plan_points and adds
\* one to plan_version, every other stage leaves both as they are
PlanStep ==
    IF last_call'.op = "create_plan"
    THEN /\ context'.plan_version = context.plan_version + 1
         /\ (~last_call'.error /\ ~last_call'.llm_failed) =>
               /\ context'.plan_points = last_call'.points
               /\ context'.current_step = 4
    ELSE /\ context'.plan_version = context.plan_version
         /\ context'.plan_points = context.plan_points

(***************************************************************************)
(* C31: plan_version grows by exactly 1 with every create_plan, which      *)
(* replaces plan_points, and no other stage handler changes it; after a    *)
(* create_plan whose model call succeeded plan_points is the list of the   *)
(* parsed points and current_step is 4.                                    *)
(***************************************************************************)
C31_PlanVersion == [][PlanStep]_vars

\* a second plan has replaced a first one of other points
C31_Witness ==
    /\ last_call.op = "create_plan"
    /\ ~last_call.llm_failed
    /\ context.plan_version = 2
    /\ context.plan_points # last_call.pre.plan_points
    /\ context.plan_points # <<>>

\* the fields of the ContextState a clarify call has to leave alone
ClarifyFrame ==
    { "clarification_questions", "clarification_answers", "plan_points",
      "queries", "urls", "dossiers", "key_learnings", "source_registry" }

ClarifyLeavesFrame ==
    last_call.op = "clarify" =>
        \A f \in ClarifyFrame : context[f] = last_call.pre[f]

\* a clarify that follows a clarify leaves the ContextState as it found it
SecondClarifyChangesNothing ==
    (last_call.op = "clarify" /\ last_call'.op = "clarify") =>
        context' = context

(***************************************************************************)
(* C32: a clarify call, whether it returns the suggestion or an error,     *)
(* leaves clarification_questions, clarification_answers, plan_points,     *)
(* queries, urls, dossiers, key_learnings and source_registry as they      *)
(* were, and a second clarify after a first leaves the state the first     *)
(* one left.                                                               *)
(***************************************************************************)
C32_ClarifyCommitsNothing ==
    []ClarifyLeavesFrame /\ [][SecondClarifyChangesNothing]_vars

\* clarify has returned a suggestion a second time
C32_Witness ==
    /\ last_call.op = "clarify"
    /\ ~last_call.error
    /\ ~last_call.llm_failed
    /\ calls = 2
    /\ last_call.pre.current_step = 3

\* the done event of the run, once deep_research has yielded its last event
LastProduced == produced[Len(produced)]

\* the section of the dossier committed as the i-th
ExpectedSection(i) ==
    "## " \o context.dossiers[i].point \o "\n\n"
        \o Str(context.dossiers[i].dossier) \o "\n\n---\n\n"

\* the sections of the first n dossiers, in commit order
RECURSIVE ExpectedSections(_)
ExpectedSections(n) ==
    IF n = 0 THEN "" ELSE ExpectedSections(n - 1) \o ExpectedSection(n)

\* the registry entries with a number up to n, smallest number first
RECURSIVE ExpectedSources(_)
ExpectedSources(n) ==
    IF n = 0 THEN "## Sources\n"
    ELSE ExpectedSources(n - 1)
             \o (IF n \in DOMAIN context.source_registry
                 THEN "\n[" \o ToString(n) \o "] " \o context.source_registry[n]
                 ELSE "")

ExpectedFallback ==
    "# Research Results\n\n" \o ExpectedSections(Len(context.dossiers))
        \o (IF DOMAIN context.source_registry = {} THEN "No sources registered."
            ELSE ExpectedSources(context.source_counter))

SynthesisFailed ==
    /\ pc \in {"done", "closed"}
    /\ last_call = [op |-> "call_llm", ok |-> FALSE]

(***************************************************************************)
(* C33: when the synthesis call has failed, deep_research still ends with  *)
(* a done event and yields no error event, and the final_document of that  *)
(* done event is the heading, every committed dossier in commit order      *)
(* under its point title, and then the source list with every entry of     *)
(* the registry, smallest citation number first.                           *)
(***************************************************************************)
C33_FallbackDocument ==
    SynthesisFailed =>
        /\ LastProduced.type = "done"
        /\ \A i \in 1..Len(produced) : produced[i].type # "error"
        /\ LastProduced.data.final_document = ExpectedFallback
        /\ final_document = ExpectedFallback

\* the synthesis call failed after two dossiers with sources were committed
C33_Witness ==
    /\ SynthesisFailed
    /\ Len(context.dossiers) = 2
    /\ Cardinality(DOMAIN context.source_registry) >= 2

(***************************************************************************)
(* SpecRecent: ContextState.get_previous_learnings(limit) called on one    *)
(* ContextState whose texts are sequences of characters                    *)
(***************************************************************************)
MaxLimit == 8

\* ContextState.get_previous_learnings
get_previous_learnings(c, limit) ==
    IF c.key_learnings = <<>> THEN <<"N", "o", "n", "e", " ", "y", "e", "t">>
    ELSE Join(Dashed(Last(c.key_learnings, limit)), "\n")

\* context.get_previous_learnings(limit)
GetPreviousLearnings ==
    \E limit \in 0..MaxLimit :
        /\ last_call = NoCall
        /\ last_call' = [ op    |-> "get_previous_learnings",
                          limit |-> limit,
                          ret   |-> get_previous_learnings(context, limit) ]
        /\ UNCHANGED <<context, calls, deepVars, routeVars, scraper>>

NextRecent == GetPreviousLearnings

SpecRecent == InitFormat /\ [][NextRecent]_vars

\* the last limit learnings, all of them when fewer are stored, one bullet
\* line each
ExpectedBullets(limit) ==
    LET n    == Len(context.key_learnings)
        kept == Min(n, limit)
    IN  Join([i \in 1..kept |-> <<"-",
        " ">> \o context.key_learnings[n - kept + i]],
             "\n")

(***************************************************************************)
(* C34: get_previous_learnings(limit) returns "None yet" when no learning  *)
(* is stored, and otherwise the last limit learnings, never more than      *)
(* limit of them, in stored order, one "- " line each; for every           *)
(* limit >= 0 and every number of stored learnings.                        *)
(***************************************************************************)
C34_LastLimitLearnings ==
    last_call.op = "get_previous_learnings" =>
        last_call.ret = IF context.key_learnings = <<>> THEN <<"N", "o", "n",
            "e", " ", "y", "e", "t">>
                        ELSE ExpectedBullets(last_call.limit)

\* the claim for the limits from 1 on
LastLimitLearningsFromOne ==
    (last_call.op = "get_previous_learnings" /\ last_call.limit >= 1) =>
        last_call.ret = IF context.key_learnings = <<>> THEN <<"N", "o", "n",
            "e", " ", "y", "e", "t">>
                        ELSE ExpectedBullets(last_call.limit)

(***************************************************************************)
(* SpecAcademic: the plan and deep-research requests of one session, as    *)
(* far as academic_mode goes: the value the request carries, the value     *)
(* the pipeline builds its prompts with, the value the session row keeps   *)
(***************************************************************************)
\* the session row after the clarify stage; academic_mode has the column's
\* default
PlanningRow ==
    [ phase |-> "clarifying", academic_mode |-> FALSE, research_plan |-> <<>>,
      clarification_answers |-> <<>> ]

InitAcademic ==
    /\ context = NewContextState("en", FALSE)
    /\ last_call = NoCall
    /\ calls = 0
    /\ pc = "idle"
    /\ plan_points = <<>>
    /\ session = PlanningRow
    /\ point_idx = 0
    /\ search_queries = <<>>
    /\ urls = <<>>
    /\ scraped = <<>>
    /\ dossier_response = NoDossier
    /\ dossier_text = <<>>
    /\ key_learnings = <<>>
    /\ final_document = ""
    /\ produced = <<>>
    /\ delivered = <<>>
    /\ RoutesIdle
    /\ scraper = NoScrape

\* ResearchPipeline(api_key=..., provider=...).academic_mode: the default of
\* the constructor, which neither route overrides
PipelineAcademicMode == FALSE

\* research_plan for PlanRequest(clarification_answers, academic_mode).  The
\* route calls create_plan(user_query, clarification_answers, academic_mode)
\* with three positional arguments, so that create_plan receives the flag as
\* clarification_questions and None as academic_mode.  A true flag reaches
\* context.add_clarification(True), whose len(questions) raises TypeError.
research_plan(row, clarification_answers, requested, response) ==
    LET clarification_questions == requested
        academic_mode == PipelineAcademicMode
        points == IF response.ok THEN response.points ELSE <<>>
    IN  IF clarification_questions
        THEN [raised |-> TRUE, error |-> FALSE, prompted |-> FALSE,
              used |-> academic_mode, row |-> row]
        ELSE IF points = <<>>
        THEN [raised |-> FALSE, error |-> TRUE, prompted |-> TRUE,
              used |-> academic_mode, row |-> row]
        ELSE [raised |-> FALSE, error |-> FALSE, prompted |-> TRUE,
              used |-> academic_mode,
              row |-> [row EXCEPT !.phase = "planning",
                                  !.academic_mode = requested,
                                  !.research_plan = points,
                                  !.clarification_answers = clarification_answers]]

\* POST /plan
ResearchPlan ==
    \E answers \in AnswerLists, requested \in BOOLEAN,
       response \in PlanResponses :
        LET r == research_plan(session, answers, requested, response)
        IN  /\ calls < MaxRequests
            /\ calls' = calls + 1
            /\ session' = r.row
            /\ last_call' = [ op        |-> "research_plan",
                              requested |-> requested,
                              answers   |-> answers,
                              points    |-> IF response.ok THEN response.points
                                            ELSE <<>>,
                              raised    |-> r.raised,
                              error     |-> r.error,
                              prompted  |-> r.prompted,
                              used      |-> r.used ]
            /\ UNCHANGED <<context, pc, plan_points, point_idx, search_queries,
                           urls, scraped, dossier_response, dossier_text,
                           key_learnings, final_document, produced, delivered,
                           routeVars, scraper>>

\* POST /deep: the pipeline is constructed without academic_mode and
\* deep_research is called without it; generate() sets the phase
ResearchDeep ==
    \E points \in PlanPointLists :
        /\ calls < MaxRequests
        /\ calls' = calls + 1
        /\ session' = [session EXCEPT !.phase = "researching"]
        /\ last_call' = [ op        |-> "research_deep",
                          requested |-> session.academic_mode,
                          answers   |-> <<>>,
                          points    |-> points,
                          raised    |-> FALSE,
                          error     |-> FALSE,
                          prompted  |-> TRUE,
                          used      |-> PipelineAcademicMode ]
        /\ UNCHANGED <<context, pc, plan_points, point_idx, search_queries,
                       urls, scraped, dossier_response, dossier_text,
                       key_learnings, final_document, produced, delivered,
                       routeVars, scraper>>

NextAcademic == ResearchPlan \/ ResearchDeep

SpecAcademic == InitAcademic /\ [][NextAcademic]_vars

\* the plan request whose model call gave points has completed: the flag it
\* carried is the one the prompt was built with and the one the row keeps
PlanKeepsRequestedMode ==
    (last_call.op = "research_plan" /\ last_call.points # <<>>) =>
        /\ ~last_call.raised
        /\ ~last_call.error
        /\ last_call.prompted
        /\ last_call.used = last_call.requested
        /\ session.academic_mode = last_call.requested

\* stage 5 builds its dossier and synthesis prompts with the session's flag
DeepUsesSessionMode ==
    last_call.op = "research_deep" => last_call.used = session.academic_mode

(***************************************************************************)
(* C35: the academic_mode of a plan request is the one the plan prompt is  *)
(* built with and the one recorded for the session, stage 5 of that        *)
(* session builds its dossier and synthesis prompts with the same value,   *)
(* and a plan request with academic_mode = true and answers completes      *)
(* without error.                                                          *)
(***************************************************************************)
C35_AcademicModeKept == PlanKeepsRequestedMode /\ DeepUsesSessionMode

(***************************************************************************)
(* C36: in stage 5 the think and the pick prompt of plan point k are built *)
(* from the key learnings of every point committed before k in the same    *)
(* run, in commit order, and a skipped point contributes none.  The        *)
(* learnings of the committed points are read from the point_complete      *)
(* events the run has produced.                                            *)
(***************************************************************************)
PromptOps == {"build_think_prompt", "build_pick_urls_prompt"}

\* what the commit of a point appends: its stripped learnings, if not blank
LearningsOf(e) ==
    IF e.type = "point_complete" /\ ~e.data.skipped
       /\ e.data.key_learnings # <<>> /\ Strip(e.data.key_learnings) # <<>>
    THEN <<Strip(e.data.key_learnings)>>
    ELSE <<>>

RECURSIVE LearningsCommittedBefore(_, _)
LearningsCommittedBefore(events, k) ==
    IF events = <<>> THEN <<>>
    ELSE (IF Head(events).message.point < k THEN LearningsOf(Head(events))
          ELSE <<>>) \o LearningsCommittedBefore(Tail(events), k)

C36_PromptsSeeEarlierLearnings ==
    last_call.op \in PromptOps =>
        last_call.previous_learnings =
            LearningsCommittedBefore(produced, last_call.point)

\* the pick prompt of point 2 carries the learnings of committed point 1
C36_Witness ==
    /\ last_call.op = "build_pick_urls_prompt"
    /\ last_call.point = 2
    /\ Len(last_call.previous_learnings) = 1
    /\ \E i \in 1..Len(produced) :
          /\ produced[i].type = "point_complete"
          /\ produced[i].message.point = 1
          /\ ~produced[i].data.skipped

\* the think prompt of point 2 after point 1 was skipped carries none
SkippedPointGivesNoLearnings ==
    /\ last_call.op = "build_think_prompt"
    /\ last_call.point = 2
    /\ last_call.previous_learnings = <<>>
    /\ \E i \in 1..Len(produced) :
          /\ produced[i].type = "point_complete"
          /\ produced[i].data.skipped

(***************************************************************************)
(* SpecBrowser: the browser of scrape_urls_batch.  Batch fetches run one   *)
(* after the other; each that reaches AsyncCamoufox(...).start() gets a    *)
(* browser of its own, kept in the local variable browser, and the finally *)
(* clause awaits browser.close() for at most ten seconds, ignoring what it *)
(* raises.  scraper.browsers lists every browser started so far.           *)
(***************************************************************************)
MaxBatches == 2

\* how the awaited browser.close() ends
CloseOutcomes == {"closed", "raised", "timeout"}

\* a finally clause that returns without closing the browser
close_skipped(b, outcome) == b

\* finally: await asyncio.wait_for(browser.close(), timeout=10.0), with
\* "except: pass" around it
close(b, outcome) ==
    [b EXCEPT !.state = IF outcome = "closed" THEN "closed" ELSE "open",
              !.close = Append(@, outcome)]

\* the browser the batch numbered n has started
NewBrowser(n) == [batch |-> n, state |-> "open", close |-> <<>>]

\* a URL the validator accepts and one it rejects
BrowserSafeUrl ==
    <<"h", "t", "t", "p", "s", ":", "/", "/", "e", "x", "a", "m", "p", "l", "e",
      ".", "c", "o", "m", "/", "a">>

BrowserPrivateUrl ==
    <<"h", "t", "t", "p", ":", "/", "/", "1", "0", ".", "0", ".", "0", ".",
      "1", "/">>

\* the URL lists fetched
BrowserUrlLists ==
    { <<>>, <<BrowserPrivateUrl>>, <<BrowserSafeUrl>>,
      <<BrowserSafeUrl, BrowserPrivateUrl>>, <<BrowserSafeUrl, BrowserSafeUrl>> }

\* the navigations: one of each kind, the exception a DNS failure
BrowserNavigations ==
    {nav \in Navigations :
        nav.kind = "exception" =>
            nav.text = <<"E", "R", "R", "_", "N", "A", "M", "E", "_", "N", "O",
                         "T", "_", "R", "E", "S", "O", "L", "V", "E", "D">>}

\* the fetch s of batch n, with the browsers started so far; path is the way
\* the try block was left
Batch(s, n, browsers, started, path) ==
    [ f \in DOMAIN s \cup {"batch", "browsers", "started", "path"} |->
        CASE f = "batch"    -> n
          [] f = "browsers" -> browsers
          [] f = "started"  -> started
          [] f = "path"     -> path
          [] OTHER          -> s[f] ]

InitBrowser ==
    /\ context = NewContextState("en", FALSE)
    /\ last_call = NoCall
    /\ calls = 0
    /\ pc = "idle"
    /\ plan_points = <<>>
    /\ session = NewSession("initial")
    /\ point_idx = 0
    /\ search_queries = <<>>
    /\ urls = <<>>
    /\ scraped = <<>>
    /\ dossier_response = NoDossier
    /\ dossier_text = <<>>
    /\ key_learnings = <<>>
    /\ final_document = ""
    /\ produced = <<>>
    /\ delivered = <<>>
    /\ RoutesIdle
    /\ scraper = Batch(NoScrape, 0, <<>>, FALSE, "none")

\* scrape_urls_batch(url_list, retries_per_url) is called: the statements up
\* to the loop over safe_urls
BrowserBatch ==
    \E url_list \in BrowserUrlLists,
       retries_per_url \in BatchRetries, start \in {"ok", "raised", "no page"} :
        LET n        == scraper.batch + 1
            browsers == scraper.browsers
            opened   == Append(browsers, NewBrowser(n))
            safe     == scrape_urls_batch(url_list)
            none     == ReturnedAtOnce("scrape_urls_batch", NoError)
            going    == Started("scrape_urls_batch", safe, retries_per_url)
        IN  /\ scraper.pc \in {"idle", "returned"}
            /\ scraper.batch < MaxBatches
            /\ scraper' =
                  IF safe = <<>>
                  THEN Batch(none, n, browsers, FALSE, "no urls")
                  ELSE IF start = "raised"
                  THEN Batch(none, n, browsers, FALSE, "raised")
                  ELSE IF start = "no page"
                  THEN Batch([going EXCEPT !.pc = "finally"], n, opened, TRUE,
                             "raised")
                  ELSE Batch(going, n, opened, TRUE, "none")
            /\ last_call' = [op |-> "scrape_urls_batch", urls |-> url_list]
            /\ UNCHANGED <<context, calls, deepVars, routeVars>>

\* page.goto on the page of this batch's browser and what follows it, up to
\* the next page.goto or to the end of the loop
BrowserAttempt ==
    \E nav \in BrowserNavigations :
        LET s == scrape_urls_batch_attempt(scraper, nav, 0)
        IN  /\ scraper.pc = "goto"
            /\ scraper' =
                 [s EXCEPT !.pc = IF s.pc = "returned" THEN "finally" ELSE s.pc,
                           !.path = IF s.pc = "returned" THEN "completed" ELSE @]
            /\ UNCHANGED <<context, last_call, calls, deepVars, routeVars>>

\* an exception leaves the loop over safe_urls: "except Exception" of the
\* outer try logs it
BrowserLoopRaises ==
    /\ scraper.pc = "goto"
    /\ scraper' = [scraper EXCEPT !.pc = "finally", !.path = "raised"]
    /\ UNCHANGED <<context, last_call, calls, deepVars, routeVars>>

\* the finally clause and "return results"
BrowserClose ==
    \E outcome \in CloseOutcomes :
        LET b == Len(scraper.browsers)
        IN  /\ scraper.pc = "finally"
            /\ scraper' = [scraper EXCEPT !.pc = "returned",
                                          !.browsers[b] = close(@, outcome)]
            /\ UNCHANGED <<context, last_call, calls, deepVars, routeVars>>

NextBrowser ==
    \/ BrowserBatch
    \/ BrowserAttempt
    \/ BrowserLoopRaises
    \/ BrowserClose

SpecBrowser == InitBrowser /\ [][NextBrowser]_vars

\* the browser of the running batch: the last one started
BatchBrowser == scraper.browsers[Len(scraper.browsers)]

\* the URLs whose page.goto ended with text, in the order of the log
RECURSIVE FetchedBeforeReturn(_)
FetchedBeforeReturn(log) ==
    IF log = <<>> THEN <<>>
    ELSE (IF Head(log).kind = "goto" /\ Head(log).nav.kind = "ok"
          THEN <<scraper.urls[Head(log).i]>> ELSE <<>>)
         \o FetchedBeforeReturn(Tail(log))

\* the batch has returned after starting a browser: browser.close() was
\* awaited once, on that browser, and it is closed when the close completed
ClosedBeforeReturn ==
    (scraper.pc = "returned" /\ scraper.started) =>
        /\ scraper.path \in {"completed", "raised"}
        /\ BatchBrowser.batch = scraper.batch
        /\ Len(BatchBrowser.close) = 1
        /\ BatchBrowser.close[1] = "closed" => BatchBrowser.state = "closed"

\* while the batch navigates, the page is one of its own browser, started by
\* this batch and not closed yet; no browser belongs to two batches
OwnBrowserOnly ==
    /\ scraper.pc \in {"goto", "finally"} =>
          /\ scraper.started
          /\ BatchBrowser = NewBrowser(scraper.batch)
    /\ \A j, k \in 1..Len(scraper.browsers) :
          scraper.browsers[j].batch = scraper.browsers[k].batch => j = k

\* what was fetched before the try block was left is what is returned
PartialResultsReturned ==
    scraper.pc = "returned" => scraper.results = FetchedBeforeReturn(scraper.log)

AllUrlsFailedAndClosed ==
    /\ scraper.pc = "returned"
    /\ scraper.started
    /\ scraper.path = "completed"
    /\ Len(scraper.urls) = 2
    /\ scraper.results = <<>>
    /\ BatchBrowser.state = "closed"

\* the awaited close did not complete: the batch returns all the same
ReturnedAfterCloseFailed ==
    /\ scraper.pc = "returned"
    /\ scraper.started
    /\ BatchBrowser.state = "open"

(***************************************************************************)
(* C38: after every commit of stage 5 each URL listed in the sources of a  *)
(* stored dossier is a value of source_registry, and the commit of a point *)
(* stores as the dossier's sources exactly the URLs fetched for that point *)
(* (scraped, as the scrape phase left it), not the picked URLs, leaving    *)
(* the dossiers stored before as they were.                                *)
(***************************************************************************)
RegisteredUrls == {context.source_registry[n] : n \in DOMAIN context.source_registry}

SourcesRegistered ==
    \A d \in 1..Len(context.dossiers) :
        \A i \in 1..Len(context.dossiers[d].sources) :
            context.dossiers[d].sources[i] \in RegisteredUrls

CommitStoresFetched ==
    Len(context'.dossiers) # Len(context.dossiers) =>
        /\ pc = "dossier"
        /\ Len(context'.dossiers) = Len(context.dossiers) + 1
        /\ SubSeq(context'.dossiers, 1, Len(context.dossiers)) = context.dossiers
        /\ context'.dossiers[Len(context'.dossiers)].sources = scraped
        /\ scraped \in SubLists(urls) \ {<<>>}

C38_SourcesAreFetchedUrls == []SourcesRegistered /\ [][CommitStoresFetched]_vars

\* point 1 was committed with one source after two URLs had been picked
C38_Witness ==
    /\ Len(context.dossiers) = 1
    /\ Len(context.dossiers[1].sources) = 1
    /\ SourcesRegistered
    /\ \E i \in 1..Len(produced) :
          /\ produced[i].type = "sources"
          /\ produced[i].message.point = 1
          /\ produced[i].data.urls = 2

(***************************************************************************)
(* C39: the persisted session's phase is 'done' only when a done event has *)
(* been emitted on its stage-5 stream, and then the stored final_document, *)
(* source_registry and total_sources are those of that done event; when    *)
(* the stream has ended with an error line or was cancelled, the persisted *)
(* phase is not 'done'.                                                    *)
(***************************************************************************)
DoneEvents == {i \in 1..Len(produced) : produced[i].type = "done"}

StoredFromDoneEvent ==
    session.persisted.phase = "done" =>
        \E i \in DoneEvents :
            /\ \E j \in 1..Len(delivered) : delivered[j] = Line(produced[i])
            /\ session.persisted.final_document = produced[i].data.final_document
            /\ session.persisted.source_registry = produced[i].data.source_registry
            /\ session.persisted.total_sources = produced[i].data.total_sources

StreamEndedWithError ==
    /\ pc = "closed"
    /\ delivered # <<>>
    /\ delivered[Len(delivered)].type = "error"

NotDoneAfterErrorOrCancel ==
    (StreamEndedWithError \/ pc = "cancelled") => session.persisted.phase # "done"

ErrorAfterDoneLine ==
    /\ StreamEndedWithError
    /\ DoneEvents # {}
    /\ session.phase = "done"
    /\ session.persisted.phase = "researching"

\* the stream was cancelled after the done line was yielded
CancelledAfterDoneLine ==
    /\ pc = "cancelled"
    /\ DoneEvents # {}
    /\ session.persisted.phase = "researching"

(***************************************************************************)
(* SpecDone: research_deep for a session that research_overview created.   *)
(* The row's id is the uuid overview returned as session_id; the pipeline  *)
(* research_deep constructs has a new ContextState whose session_id is a   *)
(* uuid4 of its own.                                                       *)
(***************************************************************************)
\* the values a uuid can take
Uuids == {"s1", "s2"}

InitDone ==
    /\ \E id \in Uuids :
          context = [NewContextState("en", FALSE) EXCEPT !.session_id = id]
    /\ \E id \in Uuids : session = [NewSession("planning") EXCEPT !.id = id]
    /\ last_call = NoCall
    /\ calls = 0
    /\ pc = "generate"
    /\ plan_points \in PlanPointLists
    /\ point_idx = 0
    /\ search_queries = <<>>
    /\ urls = <<>>
    /\ scraped = <<>>
    /\ dossier_response = NoDossier
    /\ dossier_text = <<>>
    /\ key_learnings = <<>>
    /\ final_document = ""
    /\ produced = <<>>
    /\ delivered = <<>>
    /\ RoutesIdle
    /\ scraper = NoScrape

SpecDone == InitDone /\ [][NextDeep]_vars

\* total_sources and total_points of a done event count its source_registry
\* and the dossiers of the context snapshot it carries
DoneCountsConsistent ==
    \A i \in DoneEvents :
        /\ produced[i].data.total_sources
             = Cardinality(DOMAIN produced[i].data.source_registry)
        /\ produced[i].data.total_points
             = Len(produced[i].data.context.dossiers)

\* the done event names the session of the request
DoneNamesRequestedSession ==
    \A i \in DoneEvents : produced[i].data.session_id = session.id

(***************************************************************************)
(* C40: the done event is consistent with the session requested: its       *)
(* session_id is the id of the session named in the deep-research request, *)
(* its total_sources is the number of entries of its source_registry and   *)
(* its total_points the number of dossiers in the context snapshot.        *)
(***************************************************************************)
C40_DoneEventConsistent == DoneNamesRequestedSession /\ DoneCountsConsistent

=============================================================================
